---------------------------- MODULE Spec2Model ----------------------------
(***************************************************************************)
(* Kinematics core of the IK/FK rigging system.                            *)
(*                                                                         *)
(* Two subsystems are modelled:                                            *)
(*   - the joint tree (Joint / JointChain, radians), driven frame by frame *)
(*     by IKFKSystem.animate and edited between frames by the input and UI *)
(*     handlers;                                                           *)
(*   - the multi-chain skeleton solver AdvancedIKSolver (degrees).         *)
(*                                                                         *)
(* Numbers are fixed point integers:                                       *)
(*   radians          in units of 1/AngleScale rad                         *)
(*   sines, cosines   in units of 1/TrigScale                              *)
(*   tree lengths     in units of 1/LenScale px                            *)
(*   ratios (weights, damping, speeds) in units of 1/RatioScale            *)
(***************************************************************************)
EXTENDS Integers, Sequences, FiniteSets, TLC

\* ------------------------------------------------------------------------
\* Fixed point arithmetic
\* ------------------------------------------------------------------------

AngleScale == 10000
TrigScale == 10000
LenScale == 10
RatioScale == 10

\* Math.PI, in angle units
PI == 31416
TwoPI == 2 * PI
HalfPI == PI \div 2

Abs(a) == IF a < 0 THEN -a ELSE a
Sign(a) == IF a > 0 THEN 1 ELSE IF a < 0 THEN -1 ELSE 0
Max(a, b) == IF a > b THEN a ELSE b
Min(a, b) == IF a < b THEN a ELSE b

\* a / b of floating point, rounded to the nearest unit (b > 0)
RDiv(a, b) == IF a >= 0 THEN (2 * a + b) \div (2 * b)
                        ELSE -((2 * (-a) + b) \div (2 * b))

\* JavaScript's % : the remainder takes the sign of the dividend
JsRem(a, m) == IF a >= 0 THEN a % m ELSE -((-a) % m)

\* Math.sqrt on a non-negative integer, rounded down
RECURSIVE SqrtIter(_, _, _)
SqrtIter(n, lo, hi) ==
    IF lo >= hi THEN lo
    ELSE LET mid == (lo + hi + 1) \div 2
         IN IF mid * mid <= n THEN SqrtIter(n, mid, hi)
                              ELSE SqrtIter(n, lo, mid - 1)
Sqrt(n) == SqrtIter(n, 0, 46340)

\* Math.sin for an angle in [-HalfPI, HalfPI]: odd Taylor polynomial to x^9
SinSeries(x) ==
    LET RECURSIVE Terms(_, _, _)
        \* the alternating sum from the term t of power k on
        Terms(t, x2, k) ==
            IF k > 9 THEN 0
            ELSE t - Terms(RDiv(RDiv(t * x2, AngleScale), (k + 1) * (k + 2)), x2, k + 2)
    IN Terms(x, RDiv(x * x, AngleScale), 1)

\* the representative of angle a in (-PI, PI]
Principal(a) ==
    LET r == a % TwoPI
    IN IF r > PI THEN r - TwoPI ELSE r

Sin(a) ==
    LET p == Principal(a)
        q == IF p > HalfPI THEN PI - p
             ELSE IF p < -HalfPI THEN -PI - p
             ELSE p
    IN SinSeries(q)

Cos(a) == Sin(a + HalfPI)

\* Math.atan for t = n/d with 0 <= n <= d, d > 0, in angle units:
\* atan(t) = PI/4 + atan((t-1)/(t+1)) brings the argument below tan(PI/8)
AtanSeries(u) ==
    LET RECURSIVE Terms(_, _, _)
        \* the alternating sum from the power p = u^k on
        Terms(p, u2, k) ==
            IF k > 9 THEN 0
            ELSE RDiv(p, k) - Terms(RDiv(p * u2, AngleScale), u2, k + 2)
    IN Terms(u, RDiv(u * u, AngleScale), 1)

AtanUnit(n, d) ==
    LET low == 5 * n <= 2 * d
    IN (IF low THEN 0 ELSE RDiv(PI, 4))
       + (IF low THEN 1 ELSE -1)
         * AtanSeries(IF low THEN RDiv(n * AngleScale, d)
                             ELSE RDiv((d - n) * AngleScale, d + n))

\* Math.atan2(y, x), result in (-PI, PI]
Atan2(y, x) ==
    LET ax == Abs(x)
        ay == Abs(y)
        \* from the angle u of the octant 0 <= min <= max to the quadrant of (x, y)
        Quadrant(u) ==
            LET base == IF ay <= ax THEN u ELSE HalfPI - u
                half == IF x >= 0 THEN base ELSE PI - base
            IN IF y >= 0 THEN half ELSE -half
    IN Quadrant(IF ax = 0 /\ ay = 0 THEN 0
                ELSE AtanUnit(IF ay <= ax THEN ay ELSE ax, IF ay <= ax THEN ax ELSE ay))


\* ------------------------------------------------------------------------
\* Vector2 and Matrix3
\* ------------------------------------------------------------------------

Vec(x, y) == [x |-> x, y |-> y]
VAdd(a, b) == Vec(a.x + b.x, a.y + b.y)
VSub(a, b) == Vec(a.x - b.x, a.y - b.y)
\* Vector2.multiply by a scalar given as the fraction n/d
VScale(a, n, d) == Vec(RDiv(a.x * n, d), RDiv(a.y * n, d))
VMagnitude(a) == Sqrt(a.x * a.x + a.y * a.y)
VAngle(a) == Atan2(a.y, a.x)
VDistance(a, b) == VMagnitude(VSub(a, b))

\* A Matrix3 of the program is always affine (third column 0, 0, 1), so it
\* is kept as its six free elements: e0 e1 e3 e4 in trig units, e6 e7 in
\* length units.
Mat(e0, e1, e3, e4, e6, e7) ==
    [e0 |-> e0, e1 |-> e1, e3 |-> e3, e4 |-> e4, e6 |-> e6, e7 |-> e7]
MatIdentity == Mat(TrigScale, 0, 0, TrigScale, 0, 0)
MatTranslation(x, y) == Mat(TrigScale, 0, 0, TrigScale, x, y)
MatRotation(angle) ==
    LET Rotation(c, s) == Mat(c, s, -s, c, 0, 0)
    IN Rotation(Cos(angle), Sin(angle))

\* Matrix3.multiply: this * other
MatMultiply(a, b) ==
    Mat(RDiv(a.e0 * b.e0 + a.e1 * b.e3, TrigScale),
        RDiv(a.e0 * b.e1 + a.e1 * b.e4, TrigScale),
        RDiv(a.e3 * b.e0 + a.e4 * b.e3, TrigScale),
        RDiv(a.e3 * b.e1 + a.e4 * b.e4, TrigScale),
        RDiv(a.e6 * b.e0 + a.e7 * b.e3, TrigScale) + b.e6,
        RDiv(a.e6 * b.e1 + a.e7 * b.e4, TrigScale) + b.e7)

\* Matrix3.transformPoint (w = 1 for an affine matrix)
TransformPoint(m, p) ==
    Vec(RDiv(p.x * m.e0 + p.y * m.e3, TrigScale) + m.e6,
        RDiv(p.x * m.e1 + p.y * m.e4, TrigScale) + m.e7)

\* Matrix3.transformVector of a unit vector (x, y in {-1, 0, 1}),
\* result in trig units
TransformVector(m, v) ==
    Vec(v.x * m.e0 + v.y * m.e3, v.x * m.e1 + v.y * m.e4)

\* ------------------------------------------------------------------------
\* MathUtils
\* ------------------------------------------------------------------------

Clamp(value, min, max) == Max(min, Min(max, value))

\* MathUtils.lerp with t in ratio units
Lerp(a, b, t) == a + RDiv((b - a) * t, RatioScale)

RECURSIVE NormalizeDown(_)
NormalizeDown(a) == IF a > PI THEN NormalizeDown(a - TwoPI) ELSE a
RECURSIVE NormalizeUp(_)
NormalizeUp(a) == IF a < -PI THEN NormalizeUp(a + TwoPI) ELSE a
NormalizeAngle(a) == NormalizeUp(NormalizeDown(a))

\* the remainder alone, which keeps the sign of a
WrapAngleRemainder(a) == JsRem(a, TwoPI)
WrapAngle(a) == JsRem(JsRem(a, TwoPI) + TwoPI, TwoPI)

\* MathUtils.degToRad for whole degrees (the sliders' step)
DegToRad(d) == RDiv(d * PI, 180)

\* ------------------------------------------------------------------------
\* State
\* ------------------------------------------------------------------------

VARIABLES
    joints,          \* the Joint objects constructed so far: id -> fields
    target,          \* JointChain.target: a point, or NoTarget
    chainIkEnabled,  \* JointChain.ikEnabled
    solverType,      \* JointChain.solverType
    iterations,      \* JointChain.iterations
    threshold,       \* JointChain.threshold, length units
    ikStrength,      \* JointChain.ikStrength, ratio units
    thrown,          \* the exception the last operation ended with
    frameLog,        \* what the last frame did, in order
    last,            \* the last operation and the joints it started from
    steps,           \* calls and edits performed so far
    frames,          \* frames animated so far
    selectedJoint,   \* InputHandler.selectedJoint: a joint, or NULL
    rotations,       \* the skeleton's rotation map, joint id to degrees
    lastSolve        \* the last solveIK_Advanced call and what it computed

vars == <<joints, target, chainIkEnabled, solverType, iterations, threshold,
          ikStrength, thrown, frameLog, last, steps, frames, selectedJoint,
          rotations, lastSolve>>

chainVars == <<target, chainIkEnabled, solverType, iterations, threshold,
               ikStrength>>

skeletonVars == <<rotations, lastSolve>>

\* Bounds of the model
MaxJoints == 5
MaxSteps == 3
MaxEdits == 2
MaxFrames == 2

JointIds == 1 .. MaxJoints
NULL == 0
ROOT == 1
NoTarget == [none |-> TRUE]
NotCalled == [phase |-> "idle", ran |-> FALSE, rots |-> <<>>]

\* ------------------------------------------------------------------------
\* Joint
\* ------------------------------------------------------------------------

\* Joint constructor
NewJoint(position, length) ==
    [position |-> position,
     length |-> length,
     angle |-> 0,
     targetAngle |-> 0,
     fkEnabled |-> TRUE,
     angleWrapping |-> TRUE,
     rotationSpeed |-> 1,
     ikEnabled |-> TRUE,
     ikWeight |-> 10,
     damping |-> 1,
     selected |-> FALSE,
     constraints |-> [enabled |-> FALSE,
                      minAngle |-> -((PI * 3) \div 4),
                      maxAngle |-> (PI * 3) \div 4],
     localTransform |-> MatIdentity,
     worldTransform |-> MatIdentity,
     children |-> <<>>,
     parent |-> NULL]

IndexOf(seq, e) ==
    IF \E i \in 1 .. Len(seq) : seq[i] = e
    THEN CHOOSE i \in 1 .. Len(seq) :
            seq[i] = e /\ \A k \in 1 .. (i - 1) : seq[k] # e
    ELSE 0

RemoveAt(seq, i) == SubSeq(seq, 1, i - 1) \o SubSeq(seq, i + 1, Len(seq))

\* Joint.addChild
addChild(js, this, child) ==
    IF child # NULL /\ child # this
    THEN [js EXCEPT ![this].children = Append(@, child),
                    ![child].parent = this]
    ELSE js

\* Joint.removeChild
removeChild(js, this, child) ==
    LET index == IndexOf(js[this].children, child)
    IN IF index > 0
       THEN [js EXCEPT ![this].children = RemoveAt(@, index),
                       ![child].parent = NULL]
       ELSE js

\* the joints reachable from the joints of S through children lists
RECURSIVE Closure(_, _)
Closure(js, S) ==
    LET T == S \cup UNION {{js[j].children[i] : i \in 1 .. Len(js[j].children)} : j \in S}
    IN IF T = S THEN S ELSE Closure(js, T)

Reachable(js) == Closure(js, {ROOT})

ChildSet(js, j) == {js[j].children[i] : i \in 1 .. Len(js[j].children)}

\* a walk down the children lists from the root runs into a joint again
\* (recursive traversals of the program then never return)
Cyclic(js) ==
    \E j \in Reachable(js) : j \in Closure(js, ChildSet(js, j))

SetMax(S) == CHOOSE m \in S : \A e \in S : m >= e

\* Joint.getChainDepth
RECURSIVE getChainDepth(_, _)
getChainDepth(js, this) ==
    IF Len(js[this].children) = 0 THEN 0
    ELSE SetMax({0} \cup {getChainDepth(js, js[this].children[i]) + 1 :
                            i \in 1 .. Len(js[this].children)})

\* Joint.getDeepestJoint
RECURSIVE getDeepestJoint(_, _)
RECURSIVE DeepestOver(_, _, _, _)
DeepestOver(js, this, deepest, i) ==
    IF i > Len(js[this].children) THEN deepest
    ELSE LET childDeepest == getDeepestJoint(js, js[this].children[i])
         IN IF getChainDepth(js, childDeepest) > getChainDepth(js, deepest)
            THEN DeepestOver(js, this, childDeepest, i + 1)
            ELSE DeepestOver(js, this, deepest, i + 1)
getDeepestJoint(js, this) ==
    IF Len(js[this].children) = 0 THEN this
    ELSE DeepestOver(js, this, this, 1)

\* Joint.getAllJoints (and JointChain.getAllJointsInOrder): pre-order
RECURSIVE getAllJoints(_, _)
RECURSIVE AllJointsOver(_, _, _)
AllJointsOver(js, this, i) ==
    IF i > Len(js[this].children) THEN <<>>
    ELSE getAllJoints(js, js[this].children[i]) \o AllJointsOver(js, this, i + 1)
getAllJoints(js, this) == <<this>> \o AllJointsOver(js, this, 1)

\* Joint.getJointCount
getJointCount(js, this) == Len(getAllJoints(js, this))

\* ------------------------------------------------------------------------
\* JointChain: construction and structural edits
\* ------------------------------------------------------------------------

WithConstraints(j, min, max) ==
    [j EXCEPT !.constraints = [enabled |-> TRUE, minAngle |-> min, maxAngle |-> max]]

\* JointChain.initializeDefaultChain on the root made by the constructor:
\* Root - Joint_1 - Joint_2 - EndEffector
initializeDefaultChain ==
    LET made == (1 :> NewJoint(Vec(400 * LenScale, 300 * LenScale), 60 * LenScale))
             @@ (2 :> NewJoint(Vec(60 * LenScale, 0), 50 * LenScale))
             @@ (3 :> NewJoint(Vec(50 * LenScale, 0), 40 * LenScale))
             @@ (4 :> NewJoint(Vec(40 * LenScale, 0), 30 * LenScale))
        linked == addChild(addChild(addChild(made, 1, 2), 2, 3), 3, 4)
    IN [linked EXCEPT
          ![2] = WithConstraints(@, -((PI * 8) \div 10), (PI * 8) \div 10),
          ![3] = WithConstraints(@, -((PI * 6) \div 10), (PI * 6) \div 10)]

\* the id the next constructed Joint gets
FreshId(js) == Cardinality(DOMAIN js) + 1

\* JointChain.addJoint; parentJoint = NULL is the call without argument
addJoint(js, parentJoint) ==
    LET parent == IF parentJoint # NULL THEN parentJoint
                  ELSE getDeepestJoint(js, ROOT)
        id == FreshId(js)
        newJoint == NewJoint(Vec(js[parent].length, 0), 40 * LenScale)
    IN addChild(js @@ (id :> newJoint), parent, id)

\* the forEach of removeJoint from its i-th child on: joint.parent is read
\* anew for every child
RECURSIVE ReattachFrom(_, _, _)
ReattachFrom(js, joint, i) ==
    IF i > Len(js[joint].children) THEN [js |-> js, thrown |-> "none"]
    ELSE IF js[joint].parent = NULL THEN [js |-> js, thrown |-> "TypeError"]
    ELSE ReattachFrom(addChild(js, js[joint].parent, js[joint].children[i]),
                      joint, i + 1)

\* JointChain.removeJoint: the joints it leaves and the exception it ends with
removeJoint(js, joint) ==
    IF joint = ROOT THEN [js |-> js, thrown |-> "none"]
    ELSE IF js[joint].parent # NULL
         THEN ReattachFrom(removeChild(js, js[joint].parent, joint), joint, 1)
         ELSE [js |-> js, thrown |-> "none"]

\* the state a new JointChain(new Vector2(400, 300)) is in
InitChain ==
    /\ joints = initializeDefaultChain
    /\ target = Vec(600 * LenScale, 300 * LenScale)
    /\ chainIkEnabled = TRUE
    /\ solverType = "ccd"
    /\ iterations = 10
    /\ threshold = 1
    /\ ikStrength = 10
    /\ thrown = "none"
    /\ frameLog = <<>>
    /\ last = [op |-> "new", a |-> NULL, b |-> NULL, pre |-> initializeDefaultChain]
    /\ steps = 0
    /\ frames = 0
    /\ selectedJoint = NULL
    /\ rotations = <<>>
    /\ lastSolve = NotCalled

Record(op, a, b) ==
    /\ last' = [op |-> op, a |-> a, b |-> b, pre |-> joints]
    /\ steps' = steps + 1
    /\ UNCHANGED <<frames, selectedJoint, skeletonVars>>

\* ---- structural operations, called in any order -------------------------

AddChild(p, c) ==
    /\ joints' = addChild(joints, p, c)
    /\ thrown' = "none"
    /\ Record("addChild", p, c)
    /\ UNCHANGED <<chainVars, frameLog>>

RemoveChild(p, c) ==
    /\ joints' = removeChild(joints, p, c)
    /\ thrown' = "none"
    /\ Record("removeChild", p, c)
    /\ UNCHANGED <<chainVars, frameLog>>

\* addJoint() walks the tree for the deepest joint: on a cyclic structure
\* the walk exhausts the stack
AddJoint(p) ==
    /\ FreshId(joints) <= MaxJoints
    /\ IF p = NULL /\ Cyclic(joints)
       THEN joints' = joints /\ thrown' = "RangeError"
       ELSE joints' = addJoint(joints, p) /\ thrown' = "none"
    /\ Record("addJoint", p, NULL)
    /\ UNCHANGED <<chainVars, frameLog>>

RemoveJoint(j) ==
    /\ joints' = removeJoint(joints, j).js
    /\ thrown' = removeJoint(joints, j).thrown
    /\ Record("removeJoint", j, NULL)
    /\ UNCHANGED <<chainVars, frameLog>>

TreeStep == steps < MaxSteps

NextTree ==
    \/ \E p \in DOMAIN joints, c \in DOMAIN joints : TreeStep /\ AddChild(p, c)
    \/ \E p \in DOMAIN joints, c \in DOMAIN joints : TreeStep /\ RemoveChild(p, c)
    \/ \E p \in DOMAIN joints \cup {NULL} : TreeStep /\ AddJoint(p)
    \/ \E j \in DOMAIN joints : TreeStep /\ RemoveJoint(j)

SpecTree == InitChain /\ [][NextTree]_vars

\* ------------------------------------------------------------------------
\* Joint: kinematics
\* ------------------------------------------------------------------------

\* 0.001 rad, the gap below which updateFK stops interpolating
SmoothEpsilon == 10

\* Joint.updateTransform: this joint, then its children, depth first
RECURSIVE updateTransform(_, _)
RECURSIVE TransformOver(_, _, _)
TransformOver(js, this, i) ==
    IF i > Len(js[this].children) THEN js
    ELSE TransformOver(updateTransform(js, js[this].children[i]), this, i + 1)
updateTransform(js, this) ==
    LET Placed(local) ==
            [js EXCEPT ![this].localTransform = local,
                       ![this].worldTransform =
                           IF js[this].parent # NULL
                           THEN MatMultiply(js[js[this].parent].worldTransform, local)
                           ELSE local]
    IN TransformOver(Placed(MatMultiply(MatRotation(js[this].angle),
                                        MatTranslation(js[this].position.x,
                                                       js[this].position.y))),
                     this, 1)

getWorldPosition(js, this) == TransformPoint(js[this].worldTransform, Vec(0, 0))

getEndEffectorPosition(js, this) ==
    TransformPoint(js[this].worldTransform, Vec(js[this].length, 0))

getWorldAngle(js, this) ==
    VAngle(TransformVector(js[this].worldTransform, Vec(1, 0)))

\* Joint.setWorldAngle
setWorldAngle(js, this, a) ==
    LET Set(local) == [js EXCEPT ![this].angle = local, ![this].targetAngle = local]
    IN Set(IF js[this].parent # NULL
           THEN a - getWorldAngle(js, js[this].parent)
           ELSE a)

\* Joint.rotate
rotate(js, this, deltaAngle) ==
    LET t == js[this].targetAngle + deltaAngle
    IN [js EXCEPT ![this].targetAngle =
            IF js[this].angleWrapping THEN t ELSE NormalizeAngle(t)]

\* Joint.setAngle
setAngle(js, this, a) ==
    [js EXCEPT ![this].targetAngle =
        IF js[this].angleWrapping THEN a ELSE NormalizeAngle(a)]

\* Joint.updateFK snapping targetAngle to the angle it reached
updateFKSnapTarget(js, this) ==
    IF ~js[this].fkEnabled THEN js
    ELSE LET j == js[this]
             smoothed == IF Abs(j.angle - j.targetAngle) > SmoothEpsilon
                         THEN Lerp(j.angle, j.targetAngle, j.rotationSpeed)
                         ELSE j.angle
         IN updateTransform([js EXCEPT ![this].angle = WrapAngle(smoothed),
                                       ![this].targetAngle = WrapAngle(smoothed)], this)

\* Joint.updateFK.  animation.enabled is false on every joint (nothing in
\* the program sets it), so updateAnimation is never entered.
updateFK(js, this) ==
    IF ~js[this].fkEnabled THEN js
    ELSE LET j == js[this]
             smoothed == IF Abs(j.angle - j.targetAngle) > SmoothEpsilon
                         THEN Lerp(j.angle, j.targetAngle, j.rotationSpeed)
                         ELSE j.angle
             wrapped == IF j.angleWrapping THEN WrapAngle(smoothed)
                        ELSE NormalizeAngle(smoothed)
             clamped == IF j.constraints.enabled
                        THEN Clamp(wrapped, j.constraints.minAngle, j.constraints.maxAngle)
                        ELSE wrapped
         IN updateTransform([js EXCEPT ![this].angle = clamped], this)

\* one joint of the ancestor walk of Joint.updateIK
ikRotate(js, this, current, endEffector, tgt) ==
    LET c == js[current]
        Turned(targetAngle) ==
            [js EXCEPT ![current].targetAngle = targetAngle,
                       ![current].angle =
                           Lerp(c.angle, targetAngle, RatioScale - c.damping)]
        \* the rotation: clamped first, weighted after
        Rotated(wanted) ==
            LET limited == IF c.constraints.enabled
                           THEN Clamp(c.angle + wanted, c.constraints.minAngle,
                                      c.constraints.maxAngle) - c.angle
                           ELSE wanted
            IN Turned(c.angle + RDiv(limited * c.ikWeight * js[this].ikWeight,
                                     RatioScale * RatioScale))
        Toward(toEnd, toTarget) ==
            IF VMagnitude(toEnd) > 0 /\ VMagnitude(toTarget) > 0
            THEN Rotated(VAngle(toTarget) - VAngle(toEnd))
            ELSE js
        From(jointPos) == Toward(VSub(endEffector, jointPos), VSub(tgt, jointPos))
    IN From(getWorldPosition(js, current))

\* the while (current) loop of Joint.updateIK
RECURSIVE ikSweep(_, _, _, _, _)
ikSweep(js, this, current, endEffector, tgt) ==
    IF current = NULL THEN js
    ELSE IF ~js[current].ikEnabled
         THEN ikSweep(js, this, js[current].parent, endEffector, tgt)
         ELSE ikSweep(ikRotate(js, this, current, endEffector, tgt), this,
                      js[current].parent, endEffector, tgt)

\* the for loop of Joint.updateIK from iteration iter on
RECURSIVE ikIterate(_, _, _, _, _, _, _)
ikIterate(js, this, endEffector, tgt, iter, iters, thr) ==
    IF iter >= iters THEN js
    ELSE LET Continue(swept) ==
                 IF VDistance(getEndEffectorPosition(swept, this), tgt) < thr THEN swept
                 ELSE ikIterate(swept, this, endEffector, tgt, iter + 1, iters, thr)
         IN Continue(ikSweep(js, this, this, endEffector, tgt))

\* Joint.updateIK
jointUpdateIK(js, this, tgt, iters, thr) ==
    IF ~js[this].ikEnabled \/ js[this].parent = NULL THEN js
    ELSE LET endEffector == getEndEffectorPosition(js, this)
         IN IF VDistance(endEffector, tgt) < thr THEN js
            ELSE ikIterate(js, this, endEffector, tgt, 0, iters, thr)

\* ------------------------------------------------------------------------
\* JointChain: solvers and the frame update
\* ------------------------------------------------------------------------

\* Vector2.normalize, result in trig units
VNormalize(a) ==
    LET Over(mag) == IF mag = 0 THEN Vec(0, 0)
                     ELSE Vec(RDiv(a.x * TrigScale, mag), RDiv(a.y * TrigScale, mag))
    IN Over(VMagnitude(a))

VDot(a, b) == a.x * b.x + a.y * b.y
VCross(a, b) == a.x * b.y - a.y * b.x

\* one joint of a solveCCD pass.  The magnitude test is > 0.001 px, below
\* one length unit.
ccdJoint(js, joint, endEffector, tgt, strength) ==
    LET Toward(toEnd, toTarget) ==
            IF VMagnitude(toEnd) > 0 /\ VMagnitude(toTarget) > 0
            THEN rotate(js, joint,
                        RDiv((VAngle(toTarget) - VAngle(toEnd)) * strength, RatioScale))
            ELSE js
        From(jointPos) == Toward(VSub(getEndEffectorPosition(js, endEffector), jointPos),
                                 VSub(tgt, jointPos))
    IN IF ~js[joint].ikEnabled THEN js
       ELSE From(getWorldPosition(js, joint))

\* the inner loop of solveCCD: joints[i], joints[i-1], ..., joints[1]
RECURSIVE ccdPass(_, _, _, _, _, _)
ccdPass(js, order, i, endEffector, tgt, strength) ==
    IF i < 1 THEN js
    ELSE ccdPass(ccdJoint(js, order[i], endEffector, tgt, strength),
                 order, i - 1, endEffector, tgt, strength)

\* the outer loop of solveCCD from pass iter on
RECURSIVE ccdIterate(_, _, _, _, _, _, _, _)
ccdIterate(js, order, endEffector, tgt, strength, iter, iters, thr) ==
    IF iter >= iters THEN js
    ELSE LET Continue(passed) ==
                 IF VDistance(getEndEffectorPosition(passed, endEffector), tgt) < thr
                 THEN passed
                 ELSE ccdIterate(passed, order, endEffector, tgt, strength,
                                 iter + 1, iters, thr)
         IN Continue(ccdPass(js, order, Len(order), endEffector, tgt, strength))

\* JointChain.solveCCD
solveCCD(js, endEffector, tgt, strength, iters, thr) ==
    ccdIterate(js, getAllJoints(js, ROOT), endEffector, tgt, strength, 0, iters, thr)

\* forward reaching of solveFABRIK: positions[i] for i = n-1 down to 1
RECURSIVE fabrikForward(_, _, _)
fabrikForward(positions, lengths, i) ==
    IF i < 1 THEN positions
    ELSE LET direction == VNormalize(VSub(positions[i], positions[i + 1]))
             moved == VAdd(positions[i + 1], VScale(direction, lengths[i], TrigScale))
         IN fabrikForward([positions EXCEPT ![i] = moved], lengths, i - 1)

\* backward reaching of solveFABRIK: positions[i] for i = 2 up to n
RECURSIVE fabrikBackward(_, _, _)
fabrikBackward(positions, lengths, i) ==
    IF i > Len(positions) THEN positions
    ELSE LET direction == VNormalize(VSub(positions[i], positions[i - 1]))
             moved == VAdd(positions[i - 1], VScale(direction, lengths[i - 1], TrigScale))
         IN fabrikBackward([positions EXCEPT ![i] = moved], lengths, i + 1)

\* the angle loop of solveFABRIK: joints[i] for i = 2 up to n (1-based)
RECURSIVE fabrikAngles(_, _, _, _)
fabrikAngles(js, order, positions, i) ==
    IF i > Len(order) THEN js
    ELSE LET toCurrent == VSub(positions[i], positions[i - 1])
             toPrevious == VSub(positions[i - 1],
                                IF i > 2 THEN positions[i - 2] ELSE positions[i - 1])
             a == VAngle(toCurrent) - VAngle(toPrevious)
         IN fabrikAngles(setAngle(js, order[i], a), order, positions, i + 1)

\* the positions solveFABRIK derives the angles from
fabrikPositions(js, tgt) ==
    LET order == getAllJoints(js, ROOT)
        n == Len(order)
        start == [i \in 1 .. n |-> getWorldPosition(js, order[i])]
        lengths == [i \in 1 .. n |-> js[order[i]].length]
        reached == fabrikForward([start EXCEPT ![n] = tgt], lengths, n - 1)
    IN fabrikBackward([reached EXCEPT ![1] = getWorldPosition(js, ROOT)], lengths, 2)

\* JointChain.solveFABRIK
solveFABRIK(js, endEffector, tgt) ==
    fabrikAngles(js, getAllJoints(js, ROOT), fabrikPositions(js, tgt), 2)

\* epsilon of solveJacobian, 0.01 rad
JacobianEpsilon == 100

\* one joint of a solveJacobian iteration.  gradient = deltaEnd *
\* (error . deltaEnd) / epsilon^2 and the rotation is |gradient| * alpha *
\* sign(error x deltaEnd), alpha = 0.1; in fixed point the factor
\* alpha / epsilon^2 = 1000 rad per px^3 is AngleScale units per unit^3.
jacobianJoint(js, joint, endEffector, currentEnd, error) ==
    LET Turned(restored, deltaEnd) ==
            rotate(restored, joint,
                   VMagnitude(deltaEnd) * Abs(VDot(error, deltaEnd)) * AngleScale
                       * Sign(VCross(error, deltaEnd)))
        \* the angle is put back, the transforms stay as updateTransform left them
        Measured(perturbed) ==
            Turned([perturbed EXCEPT ![joint].angle = js[joint].angle],
                   VSub(getEndEffectorPosition(perturbed, endEffector), currentEnd))
    IN IF ~js[joint].ikEnabled THEN js
       ELSE Measured(updateTransform(
                        [js EXCEPT ![joint].angle = @ + JacobianEpsilon], joint))

RECURSIVE jacobianPass(_, _, _, _, _, _)
jacobianPass(js, order, i, endEffector, currentEnd, error) ==
    IF i > Len(order) THEN js
    ELSE jacobianPass(jacobianJoint(js, order[i], endEffector, currentEnd, error),
                      order, i + 1, endEffector, currentEnd, error)

RECURSIVE jacobianIterate(_, _, _, _, _, _, _)
jacobianIterate(js, order, endEffector, tgt, iter, iters, thr) ==
    IF iter >= iters THEN js
    ELSE LET currentEnd == getEndEffectorPosition(js, endEffector)
             error == VSub(tgt, currentEnd)
         IN IF VMagnitude(error) < thr THEN js
            ELSE jacobianIterate(
                    jacobianPass(js, order, 1, endEffector, currentEnd, error),
                    order, endEffector, tgt, iter + 1, iters, thr)

\* JointChain.solveJacobian
solveJacobian(js, endEffector, tgt, iters, thr) ==
    jacobianIterate(js, getAllJoints(js, ROOT), endEffector, tgt, 0, iters, thr)

\* Angles are kept below AngleBound units in magnitude.  solveJacobian adds
\* rotations of thousands of radians; a frame whose rotations leave the
\* bound is not taken (see Animate).
AngleBound == 1000000000

jacobianJointFits(js, joint, endEffector, currentEnd, error) ==
    LET Within(d, dot) ==
            \/ d = 0
            \/ /\ dot <= AngleBound \div (d * AngleScale)
               /\ Abs(js[joint].targetAngle) + d * dot * AngleScale <= AngleBound
        Sized(deltaEnd) == Within(VMagnitude(deltaEnd), Abs(VDot(error, deltaEnd)))
    IN \/ ~js[joint].ikEnabled
       \/ Sized(VSub(getEndEffectorPosition(
                         updateTransform(
                            [js EXCEPT ![joint].angle = @ + JacobianEpsilon], joint),
                         endEffector),
                     currentEnd))

RECURSIVE jacobianPassFits(_, _, _, _, _, _)
jacobianPassFits(js, order, i, endEffector, currentEnd, error) ==
    IF i > Len(order) THEN TRUE
    ELSE IF ~jacobianJointFits(js, order[i], endEffector, currentEnd, error) THEN FALSE
    ELSE jacobianPassFits(jacobianJoint(js, order[i], endEffector, currentEnd, error),
                          order, i + 1, endEffector, currentEnd, error)

RECURSIVE jacobianFits(_, _, _, _, _, _, _)
jacobianFits(js, order, endEffector, tgt, iter, iters, thr) ==
    IF iter >= iters THEN TRUE
    ELSE LET currentEnd == getEndEffectorPosition(js, endEffector)
             error == VSub(tgt, currentEnd)
         IN IF VMagnitude(error) < thr THEN TRUE
            ELSE IF ~jacobianPassFits(js, order, 1, endEffector, currentEnd, error)
            THEN FALSE
            ELSE jacobianFits(
                    jacobianPass(js, order, 1, endEffector, currentEnd, error),
                    order, endEffector, tgt, iter + 1, iters, thr)

\* a * b / c without leaving 32 bits (b = TrigScale, 0 <= |a| <= c)
MulDiv(a, b, c) ==
    LET h == 100
        q1 == (Abs(a) * h) \div c
        r1 == (Abs(a) * h) % c
        v == q1 * (b \div h) + RDiv(r1 * (b \div h), c)
    IN IF a < 0 THEN -v ELSE v

\* Math.acos of a cosine in trig units
Acos(c) == Atan2(Sqrt(TrigScale * TrigScale - c * c), c)

\* the cosine n / d clamped to [-1, 1], in trig units
ClampedCos(n, d) ==
    IF n >= d THEN TrigScale
    ELSE IF n <= -d THEN -TrigScale
    ELSE MulDiv(n, TrigScale, d)

\* JointChain.solveAnalytical past its test of the joint count: the angles
\* of joints[0] and joints[1]
analyticalAngles(js, order, tgt) ==
    LET l1 == js[order[1]].length
        l2 == js[order[2]].length
        Bend(targetDist, baseAngle) ==
            LET angle2 == Acos(ClampedCos(targetDist * targetDist - l1 * l1 - l2 * l2,
                                          2 * l1 * l2))
                angle1 == Acos(ClampedCos(l1 * l1 + targetDist * targetDist - l2 * l2,
                                          2 * l1 * targetDist))
            IN IF targetDist > l1 + l2
               THEN setAngle(setAngle(js, order[1], baseAngle), order[2], 0)
               ELSE IF targetDist < Abs(l1 - l2)
               THEN setAngle(setAngle(js, order[1], 0), order[2], 0)
               ELSE setAngle(setAngle(js, order[1], baseAngle + angle1), order[2], angle2)
        From(rootPos) == Bend(VDistance(rootPos, tgt),
                              Atan2(tgt.y - rootPos.y, tgt.x - rootPos.x))
    IN From(getWorldPosition(js, ROOT))

\* JointChain.solveAnalytical taking the first two joints of a longer chain
solveAnalyticalFirstTwo(js, endEffector, tgt) ==
    LET order == getAllJoints(js, ROOT)
    IN IF Len(order) < 2 THEN js
       ELSE analyticalAngles(js, order, tgt)

\* JointChain.solveAnalytical
solveAnalytical(js, endEffector, tgt) ==
    LET order == getAllJoints(js, ROOT)
    IN IF Len(order) # 2 THEN js
       ELSE analyticalAngles(js, order, tgt)

\* A frame in progress: the joints and the log of what has run
Event(kind, joint, solver) == [kind |-> kind, joint |-> joint, solver |-> solver]
Logged(st, event, js) == [js |-> js, log |-> Append(st.log, event)]

SolverTypes == {"ccd", "fabrik", "jacobian", "analytical"}

\* JointChain.updateIK: the switch on solverType
chainUpdateIK(st, tgt, solver, strength, iters, thr) ==
    LET endEffector == getDeepestJoint(st.js, ROOT)
    IN CASE solver = "ccd" ->
              Logged(st, Event("solve", NULL, "ccd"),
                     solveCCD(st.js, endEffector, tgt, strength, iters, thr))
         [] solver = "fabrik" ->
              Logged(st, Event("solve", NULL, "fabrik"), solveFABRIK(st.js, endEffector, tgt))
         [] solver = "jacobian" ->
              Logged(st, Event("solve", NULL, "jacobian"),
                     solveJacobian(st.js, endEffector, tgt, iters, thr))
         [] solver = "analytical" ->
              Logged(st, Event("solve", NULL, "analytical"),
                     solveAnalytical(st.js, endEffector, tgt))
         [] OTHER -> st

\* the forEach of JointChain.update over allJoints from index i on
RECURSIVE updateAllFK(_, _, _)
updateAllFK(st, allJoints, i) ==
    IF i > Len(allJoints) THEN st
    ELSE updateAllFK(Logged(st, Event("updateFK", allJoints[i], ""),
                            updateFK(st.js, allJoints[i])),
                     allJoints, i + 1)

\* the frame's solveJacobian call, if it makes one, stays within AngleBound
frameFits(js, tgt, ikOn, solver, iters, thr) ==
    LET Fits(afterFK) == jacobianFits(afterFK, getAllJoints(afterFK, ROOT),
                                      getDeepestJoint(afterFK, ROOT), tgt, 0, iters, thr)
    IN IF ikOn /\ tgt # NoTarget /\ solver = "jacobian"
       THEN Fits(updateAllFK([js |-> js, log |-> <<>>], getAllJoints(js, ROOT), 1).js)
       ELSE TRUE

\* JointChain.update with the solver step ahead of the updateFK loop
chainUpdateSolverFirst(st, tgt, ikOn, solver, strength, iters, thr) ==
    LET Advance(solved) == updateAllFK(solved, getAllJoints(solved.js, ROOT), 1)
    IN Advance(IF ikOn /\ tgt # NoTarget
               THEN chainUpdateIK(st, tgt, solver, strength, iters, thr)
               ELSE st)

\* JointChain.update
chainUpdate(st, tgt, ikOn, solver, strength, iters, thr) ==
    LET Solve(afterFK) == IF ikOn /\ tgt # NoTarget
                          THEN chainUpdateIK(afterFK, tgt, solver, strength, iters, thr)
                          ELSE afterFK
    IN Solve(updateAllFK(st, getAllJoints(st.js, ROOT), 1))

\* IKFKSystem.update and render, as IKFKSystem.animate calls them.  The UI
\* refresh and the renderer read the joints and write none of their fields.
animate(js, tgt, ikOn, solver, strength, iters, thr) ==
    LET Then(st, kind) == Logged(st, Event(kind, NULL, ""), st.js)
    IN Then(Then(chainUpdate([js |-> js, log |-> <<>>], tgt, ikOn, solver,
                             strength, iters, thr),
                 "uiUpdate"),
            "render")

\* ---- the frame loop and the edits made between frames -------------------

\* IKFKSystem.animate, one frame
Animate ==
    /\ frames < MaxFrames
    /\ frameFits(joints, target, chainIkEnabled, solverType, iterations, threshold) = TRUE
    /\ LET Shown(done) == /\ joints' = done.js
                          /\ frameLog' = done.log
       IN Shown(animate(joints, target, chainIkEnabled, solverType,
                        ikStrength, iterations, threshold))
    /\ frames' = frames + 1
    /\ last' = [op |-> "animate", a |-> NULL, b |-> NULL, pre |-> joints]
    /\ thrown' = "none"
    /\ UNCHANGED <<chainVars, steps, selectedJoint, skeletonVars>>

\* an edit of joint fields by a UI control or a drag handler
EditJoints(op, a, b, js) ==
    /\ steps < MaxEdits
    /\ joints' = js
    /\ thrown' = "none"
    /\ Record(op, a, b)
    /\ UNCHANGED <<chainVars, frameLog>>

\* the values the edits are tried with
AngleInputs == {DegToRad(170)}
MinAngleInputs == {DegToRad(60)}
MaxAngleInputs == {DegToRad(-30)}
TargetInputs == {Vec(500 * LenScale, 380 * LenScale),
                 Vec(460 * LenScale, 300 * LenScale)}
IterationInputs == {1, 10}

\* checkboxes of UIControls.bindJointControlEvents
FkToggle(j) ==
    EditJoints("fkEnabled", j, NULL, [joints EXCEPT ![j].fkEnabled = ~@])
IkToggle(j) ==
    EditJoints("ikEnabled", j, NULL, [joints EXCEPT ![j].ikEnabled = ~@])
ConstraintsToggle(j) ==
    EditJoints("constraints.enabled", j, NULL,
               [joints EXCEPT ![j].constraints.enabled = ~@])

\* sliders of UIControls.bindJointControlEvents
AngleSlider(j, a) == EditJoints("setAngle", j, a, setAngle(joints, j, a))
MinAngleSlider(j, a) ==
    EditJoints("minAngle", j, a, [joints EXCEPT ![j].constraints.minAngle = a])
MaxAngleSlider(j, a) ==
    EditJoints("maxAngle", j, a, [joints EXCEPT ![j].constraints.maxAngle = a])

\* InputHandler.handleJointDrag / handleRotation
DragAbsolute(j, a) == EditJoints("setWorldAngle", j, a, setWorldAngle(joints, j, a))
DragRelative(j, d) == EditJoints("rotate", j, d, rotate(joints, j, d))

\* an edit of a JointChain field
EditChain(op) ==
    /\ steps < MaxEdits
    /\ thrown' = "none"
    /\ Record(op, NULL, NULL)
    /\ UNCHANGED <<joints, frameLog>>

\* InputHandler.handleIKTargetDrag
MoveTarget(p) ==
    /\ target' = p
    /\ EditChain("target")
    /\ UNCHANGED <<chainIkEnabled, solverType, iterations, threshold, ikStrength>>

\* the target taken away (JointChain.update tests this.target)
ClearTarget ==
    /\ target # NoTarget
    /\ target' = NoTarget
    /\ EditChain("clearTarget")
    /\ UNCHANGED <<chainIkEnabled, solverType, iterations, threshold, ikStrength>>

\* JointChain.ikEnabled switched
ChainIkToggle ==
    /\ chainIkEnabled' = ~chainIkEnabled
    /\ EditChain("chainIkEnabled")
    /\ UNCHANGED <<target, solverType, iterations, threshold, ikStrength>>

\* the solver select and the iterations slider of UIControls.bindEvents
SelectSolver(s) ==
    /\ s # solverType
    /\ solverType' = s
    /\ EditChain("solverType")
    /\ UNCHANGED <<target, chainIkEnabled, iterations, threshold, ikStrength>>

IterationsSlider(n) ==
    /\ n # iterations
    /\ iterations' = n
    /\ EditChain("iterations")
    /\ UNCHANGED <<target, chainIkEnabled, solverType, threshold, ikStrength>>

\* structural edits: the add button, the delete key
FrameAddJoint == steps < MaxEdits /\ AddJoint(NULL)
FrameRemoveJoint(j) == steps < MaxEdits /\ j # ROOT /\ RemoveJoint(j)

\* frames interleaved with edits of the chain: target, solver, tree
NextFrame ==
    \/ Animate
    \/ \E p \in TargetInputs : MoveTarget(p)
    \/ ClearTarget
    \/ ChainIkToggle
    \/ \E s \in SolverTypes \cup {"other"} : SelectSolver(s)
    \/ \E n \in IterationInputs : IterationsSlider(n)
    \/ FrameAddJoint
    \/ \E j \in Reachable(joints) : FrameRemoveJoint(j)

SpecFrame == InitChain /\ [][NextFrame]_vars

\* frames interleaved with edits of single joints
NextPose ==
    \/ Animate
    \/ \E j \in Reachable(joints) : FkToggle(j)
    \/ \E j \in Reachable(joints) : IkToggle(j)
    \/ \E j \in Reachable(joints) : ConstraintsToggle(j)
    \/ \E j \in Reachable(joints), a \in AngleInputs : AngleSlider(j, a)
    \/ \E j \in Reachable(joints), a \in MinAngleInputs : MinAngleSlider(j, a)
    \/ \E j \in Reachable(joints), a \in MaxAngleInputs : MaxAngleSlider(j, a)
    \/ \E j \in Reachable(joints), a \in AngleInputs : DragAbsolute(j, a)
    \/ \E j \in Reachable(joints), a \in AngleInputs : DragRelative(j, a)

SpecPose == InitChain /\ [][NextPose]_vars

\* the IK weight slider of UIControls.bindJointControlEvents, range 0 to 2
IkWeightInputs == {0, 2 * RatioScale}
IkWeightSlider(j, w) ==
    EditJoints("ikWeight", j, w, [joints EXCEPT ![j].ikWeight = w])

\* Joint.updateIK called on joint j with a target and an iteration count
\* (threshold at its default)
IkTargetInputs == {Vec(500 * LenScale, 380 * LenScale)}
IkIterationInputs == {1, 3}
JointUpdateIK(j, p, n) ==
    EditJoints("updateIK", j, n, jointUpdateIK(joints, j, p, n, threshold))

\* frames interleaved with IK weight edits and Joint.updateIK calls
NextJointIK ==
    \/ Animate
    \/ \E j \in Reachable(joints), w \in IkWeightInputs : IkWeightSlider(j, w)
    \/ \E j \in Reachable(joints), p \in IkTargetInputs, n \in IkIterationInputs :
          JointUpdateIK(j, p, n)

SpecJointIK == InitChain /\ [][NextJointIK]_vars

\* ---- a joint used through its fields and methods ------------------------

MaxFkSteps == 3

\* the values the calls are tried with
FkAngleInputs == {-PI, -(PI \div 2), PI + PI \div 2}

FkStep(op, a, b, js) ==
    /\ steps < MaxFkSteps
    /\ joints' = js
    /\ thrown' = "none"
    /\ Record(op, a, b)
    /\ UNCHANGED <<chainVars, frameLog>>

\* joint.angleWrapping = false and joint.rotationSpeed = 1, written by the
\* code that owns the joint (both are plain fields)
Unwrap(j) ==
    /\ joints[j].angleWrapping
    /\ FkStep("angleWrapping", j, NULL,
              [joints EXCEPT ![j].angleWrapping = FALSE,
                             ![j].rotationSpeed = RatioScale])

SetAngle(j, a) == FkStep("setAngle", j, a, setAngle(joints, j, a))

\* one call of Joint.updateFK
JointUpdateFK(j) == FkStep("updateFK", j, NULL, updateFK(joints, j))

NextJointFK ==
    \/ \E j \in Reachable(joints) : Unwrap(j)
    \/ \E j \in Reachable(joints), a \in FkAngleInputs : SetAngle(j, a)
    \/ \E j \in Reachable(joints) : JointUpdateFK(j)

SpecJointFK == InitChain /\ [][NextJointFK]_vars

\* ---- serialization ------------------------------------------------------

\* Joint.serialize: a record of the joint's own fields (children are not
\* among them).  constraints is the joint's constraints object itself, not
\* a copy: the record holds a reference to it, written [ref |-> owner].
jointSerialize(js, this) ==
    [id |-> this,
     position |-> [x |-> js[this].position.x, y |-> js[this].position.y],
     length |-> js[this].length,
     angle |-> js[this].angle,
     targetAngle |-> js[this].targetAngle,
     fkEnabled |-> js[this].fkEnabled,
     ikEnabled |-> js[this].ikEnabled,
     constraints |-> [ref |-> this]]

\* JointChain.prototype.serialize: the record, or the error of reading
\* this.target.x when target is null
chainSerialize(js, tgt, ikOn, strength, solver, iters, thr) ==
    IF tgt = NoTarget THEN [thrown |-> "TypeError"]
    ELSE [thrown |-> "none",
          value |-> [root |-> jointSerialize(js, ROOT),
                     target |-> [x |-> tgt.x, y |-> tgt.y],
                     ikEnabled |-> ikOn, ikStrength |-> strength,
                     solverType |-> solver, iterations |-> iters,
                     threshold |-> thr]]

\* Joint.deserialize: a new joint that takes the fields of the record;
\* joint.constraints = data.constraints keeps the reference
jointDeserialize(data) ==
    [NewJoint(Vec(data.position.x, data.position.y), data.length) EXCEPT
        !.angle = data.angle,
        !.targetAngle = data.targetAngle,
        !.fkEnabled = data.fkEnabled,
        !.ikEnabled = data.ikEnabled,
        !.constraints = data.constraints]

\* jointChain.serialize()
ChainSerialize ==
    LET Made(result) ==
            /\ last' = [op |-> "serialize", a |-> NULL, b |-> result, pre |-> joints]
            /\ thrown' = result.thrown
    IN /\ last.op \notin {"serialize", "deserialize", "restoredMinAngle"}
       /\ Made(chainSerialize(joints, target, chainIkEnabled, ikStrength, solverType,
                              iterations, threshold))
       /\ UNCHANGED <<joints, chainVars, frameLog, steps, frames, selectedJoint, skeletonVars>>

\* Joint.deserialize(record.root)
JointDeserialize ==
    /\ last.op = "serialize"
    /\ thrown = "none"
    /\ last' = [op |-> "deserialize", a |-> last.b.value.root,
                b |-> jointDeserialize(last.b.value.root), pre |-> joints]
    /\ UNCHANGED <<joints, chainVars, thrown, frameLog, steps, frames, selectedJoint, skeletonVars>>

\* restored.constraints.minAngle = a on the joint deserialize returned: the
\* write goes to the object the reference names
RestoredMinAngle(a) ==
    /\ last.op = "deserialize"
    /\ joints' = [joints EXCEPT ![last.b.constraints.ref].constraints.minAngle = a]
    /\ last' = [op |-> "restoredMinAngle", a |-> a, b |-> last.b, pre |-> joints]
    /\ UNCHANGED <<chainVars, thrown, frameLog, steps, frames, selectedJoint, skeletonVars>>

\* edits of the chain, then a serialize / deserialize round trip
NextSerialize ==
    \/ \E j \in Reachable(joints), a \in AngleInputs : AngleSlider(j, a)
    \/ \E j \in Reachable(joints) : ConstraintsToggle(j)
    \/ \E j \in Reachable(joints) : FkToggle(j)
    \/ ClearTarget
    \/ ChainSerialize
    \/ JointDeserialize
    \/ \E a \in MinAngleInputs : RestoredMinAngle(a)

SpecSerialize == InitChain /\ [][NextSerialize]_vars

\* ------------------------------------------------------------------------
\* The skeleton model: BITRUVIUS_DATA and AdvancedIKSolver
\* ------------------------------------------------------------------------

\* skeleton coordinates in units of 0.001 px, degrees in units of 0.01
PosScale == 1000
DegScale == 100

NoJoint == ""

Def(parent, px, py) == [parent |-> parent, pivot |-> Vec(px * PosScale, py * PosScale)]

JOINT_DEFS ==
    "root" :> Def(NoJoint, 0, 0) @@ "torso" :> Def("root", 0, -58) @@
    "waist" :> Def("torso", 0, 58) @@ "neck" :> Def("torso", 0, -58) @@
    "head" :> Def("neck", 0, -24) @@ "nose" :> Def("head", 0, -8) @@
    "l_collar" :> Def("torso", -32, -13) @@ "r_collar" :> Def("torso", 32, -13) @@
    "l_shoulder" :> Def("l_collar", -22, 0) @@ "r_shoulder" :> Def("r_collar", 22, 0) @@
    "l_elbow" :> Def("l_shoulder", -30, 0) @@ "r_elbow" :> Def("r_shoulder", 30, 0) @@
    "l_wrist" :> Def("l_elbow", -25, 0) @@ "r_wrist" :> Def("r_elbow", 25, 0) @@
    "l_hip" :> Def("waist", -20, 0) @@ "r_hip" :> Def("waist", 20, 0) @@
    "l_knee" :> Def("l_hip", 0, 40) @@ "r_knee" :> Def("r_hip", 0, 40) @@
    "l_ankle" :> Def("l_knee", 0, 35) @@ "r_ankle" :> Def("r_knee", 0, 35) @@
    "l_toe" :> Def("l_ankle", 0, 12) @@ "r_toe" :> Def("r_ankle", 0, 12)

\* stretchRatio in hundredths, curveStrength in tenths.  isLimb and isRight
\* are what chainId.includes("leg") || includes("arm") and
\* chainId.includes("r_") || includes("_r") give for the id.
Chain(a, b, c, stretch, curve, right) ==
    [joints |-> <<a, b, c>>, stretchRatio |-> stretch, curveStrength |-> curve,
     isLimb |-> TRUE, isRight |-> right]

IK_CHAINS ==
    "l_arm_chain" :> Chain("l_shoulder", "l_elbow", "l_wrist", 110, 5, FALSE) @@
    "r_arm_chain" :> Chain("r_shoulder", "r_elbow", "r_wrist", 110, 5, TRUE) @@
    "l_leg_chain" :> Chain("l_hip", "l_knee", "l_ankle", 105, 3, FALSE) @@
    "r_leg_chain" :> Chain("r_hip", "r_knee", "r_ankle", 105, 3, TRUE)

Limit(lo, hi) == [min |-> lo * DegScale, max |-> hi * DegScale]

JOINT_LIMITS ==
    "neck" :> Limit(-45, 45) @@ "head" :> Limit(-30, 30) @@
    "l_shoulder" :> Limit(-180, 180) @@ "r_shoulder" :> Limit(-180, 180) @@
    "l_elbow" :> Limit(0, 150) @@ "r_elbow" :> Limit(0, 150) @@
    "l_wrist" :> Limit(-90, 90) @@ "r_wrist" :> Limit(-90, 90) @@
    "l_hip" :> Limit(-30, 30) @@ "r_hip" :> Limit(-30, 30) @@
    "l_knee" :> Limit(0, 150) @@ "r_knee" :> Limit(0, 150) @@
    "l_ankle" :> Limit(-45, 45) @@ "r_ankle" :> Limit(-45, 45)

\* a * b / c rounded to the nearest unit, the product formed in two parts
\* so that it stays within 32 bits (|a| <= 2000000, 0 < c, |b| and c
\* at most 500000)
MulDivR(a, b, c) ==
    LET x == Abs(a)
        hi == x \div 1000
        lo == x % 1000
        q == (hi * b) \div c
        r == (hi * b) % c
    IN Sign(a) * (q * 1000 + RDiv(r * 1000 + lo * b, c))

\* Math.hypot(dx, dy); long vectors go through sqrt(1 + (n/m)^2) * m
HypotUnit == 30000
Hypot(dx, dy) ==
    LET m == Max(Abs(dx), Abs(dy))
        n == Min(Abs(dx), Abs(dy))
        Long(r) == MulDivR(m, Sqrt(HypotUnit * HypotUnit + r * r), HypotUnit)
    IN IF m <= HypotUnit THEN Sqrt(dx * dx + dy * dy)
       ELSE Long(MulDivR(n, HypotUnit, m))

\* Math.atan2 on skeleton coordinates, in angle units
Atan2Long(y, x) ==
    LET k == IF Max(Abs(x), Abs(y)) > 100000 THEN 4 ELSE 1
    IN Atan2(y \div k, x \div k)

\* AdvancedIKSolver.d2r / r2d / normA
d2r(d) == MulDivR(d, PI, 180 * DegScale)
r2d(r) == MulDivR(r, 180 * DegScale, PI)
\* a normalisation that keeps 180 and sends -180 to it
normAUpper(a) == 180 * DegScale
                    - JsRem(JsRem(-a, 360 * DegScale) + 540 * DegScale, 360 * DegScale)
normA(a) == JsRem(JsRem(a, 360 * DegScale) + 540 * DegScale, 360 * DegScale)
                - 180 * DegScale

\* rotations[j] || 0
Rot(rots, j) == IF j \in DOMAIN rots THEN rots[j] ELSE 0

\* the while loop of computeWorld: the path from the root down to cur
RECURSIVE PathTo(_)
PathTo(cur) ==
    IF cur = NoJoint THEN <<>> ELSE Append(PathTo(JOINT_DEFS[cur].parent), cur)

\* the for loop of computeWorld from path[i] on
RECURSIVE WorldAlong(_, _, _, _)
WorldAlong(path, i, rots, w) ==
    IF i > Len(path) THEN w
    ELSE IF path[i] = "root" THEN WorldAlong(path, i + 1, rots, w)
    ELSE LET pivot == JOINT_DEFS[path[i]].pivot
             Moved(c, s) ==
               [wx |-> w.wx + RDiv(pivot.x * c, TrigScale) - RDiv(pivot.y * s, TrigScale),
                wy |-> w.wy + RDiv(pivot.x * s, TrigScale) + RDiv(pivot.y * c, TrigScale),
                pa |-> w.wa,
                wa |-> w.wa + d2r(Rot(rots, path[i]))]
         IN WorldAlong(path, i + 1, rots, Moved(Cos(w.wa), Sin(w.wa)))

\* computeWorld with a path that holds the joint alone
computeWorldOwnPivot(jointId, rots, canvasCenter) ==
    LET Result(w) == [x |-> w.wx, y |-> w.wy, angle |-> normA(r2d(w.wa)),
                      parentAngle |-> normA(r2d(w.pa))]
    IN Result(WorldAlong(IF jointId = NoJoint THEN <<>> ELSE <<jointId>>, 1, rots,
                         [wx |-> canvasCenter.x, wy |-> canvasCenter.y, wa |-> 0, pa |-> 0]))

\* AdvancedIKSolver.computeWorld for a joint id of JOINT_DEFS
computeWorld(jointId, rots, canvasCenter) ==
    LET Result(w) == [x |-> w.wx, y |-> w.wy, angle |-> normA(r2d(w.wa)),
                      parentAngle |-> normA(r2d(w.pa))]
    IN Result(WorldAlong(PathTo(jointId), 1, rots,
                         [wx |-> canvasCenter.x, wy |-> canvasCenter.y, wa |-> 0, pa |-> 0]))

\* Math.exp(-n/d) in trig units, n >= 0, d > 0: e^-k by repeated
\* multiplication, e^-f for the fraction by its Taylor polynomial
ExpMinusOne == 3679
RECURSIVE ExpWhole(_)
ExpWhole(k) ==
    IF k = 0 THEN TrigScale
    ELSE IF k > 9 THEN 0
    ELSE RDiv(ExpWhole(k - 1) * ExpMinusOne, TrigScale)
ExpFraction(f) ==
    LET RECURSIVE Terms(_, _)
        \* the alternating sum from the term t = f^k / k! on
        Terms(t, k) ==
            IF k > 7 THEN 0 ELSE t - Terms(RDiv(t * f, (k + 1) * TrigScale), k + 1)
    IN TrigScale - Terms(f, 1)
ExpNeg(n, d) ==
    RDiv(ExpWhole(n \div d) * ExpFraction(MulDivR(n % d, TrigScale, d)), TrigScale)

\* constants of solveIK_Advanced
AdvIterations == 50
\* tolerance 0.01 px; Infinity as the largest 32 bit value
Tolerance == 10
Infinity == 2147483647
\* dist > 0.0001 px is dist > 0 in units of 0.001 px
PointDistance(a, b) == Hypot(a.x - b.x, a.y - b.y)

\* the soft reach as a hard stop: past the threshold the target goes
\* straight to the stretch limit
SoftTargetHardStop(base, tgt, total, stretchRatio) ==
    LET distToTarget == PointDistance(tgt, base)
        stretchLimit == RDiv(total * stretchRatio, 100)
        softThreshold == stretchLimit - RDiv(total * 12, 100)
    IN IF distToTarget > softThreshold
       THEN Vec(base.x + MulDivR(tgt.x - base.x, stretchLimit, distToTarget),
                base.y + MulDivR(tgt.y - base.y, stretchLimit, distToTarget))
       ELSE tgt

\* the soft reach: the target the iteration aims at
SoftTarget(base, tgt, total, stretchRatio) ==
    LET distToTarget == PointDistance(tgt, base)
        stretchLimit == RDiv(total * stretchRatio, 100)
        softDist == RDiv(total * 12, 100)
        softThreshold == stretchLimit - softDist
        overflow == distToTarget - softThreshold
        dampedOverflow == RDiv(softDist * (TrigScale - ExpNeg(overflow, softDist)),
                               TrigScale)
        newDist == softThreshold + dampedOverflow
    IN IF distToTarget > softThreshold
       THEN Vec(base.x + MulDivR(tgt.x - base.x, newDist, distToTarget),
                base.y + MulDivR(tgt.y - base.y, newDist, distToTarget))
       ELSE tgt

\* the natural bias: where chainPoints[1] starts for an arm or a leg
BiasedPoints(points, tgt, lengths, chainDef) ==
    LET shoulder == points[1]
        targetVecX == tgt.x - shoulder.x
        targetVecY == tgt.y - shoulder.y
        targetDist == Hypot(targetVecX, targetVecY)
        bendDirection == IF chainDef.isRight THEN 1 ELSE -1
        initialBendAngle == d2r(bendDirection * chainDef.curveStrength * 2 * DegScale)
        c == Cos(initialBendAngle)
        s == Sin(initialBendAngle)
        rotatedX == MulDivR(targetVecX, c, TrigScale) - MulDivR(targetVecY, s, TrigScale)
        rotatedY == MulDivR(targetVecX, s, TrigScale) + MulDivR(targetVecY, c, TrigScale)
    IN IF Len(points) >= 3 /\ chainDef.isLimb /\ targetDist > 100
       THEN [points EXCEPT ![2] =
                Vec(shoulder.x + MulDivR(rotatedX, lengths[1], targetDist),
                    shoulder.y + MulDivR(rotatedY, lengths[1], targetDist))]
       ELSE points

\* the perturbation with its loop run up to the last point, the effector
RECURSIVE PerturbedToEffector(_, _, _, _, _)
PerturbedToEffector(points, i, iter, draws, used) ==
    IF i > Len(points) THEN points
    ELSE LET temp == (3 * PosScale * (AdvIterations - iter)) \div AdvIterations
             dx == ((draws[(used % 12) + 1] - 5) * temp) \div 10
             dy == ((draws[(used % 12) + 2] - 5) * temp) \div 10
         IN PerturbedToEffector([points EXCEPT ![i] = Vec(@.x + dx, @.y + dy)],
                                i + 1, iter, draws, used + 2)

\* the perturbation of iteration iter: interior point i moves by
\* (Math.random() - 0.5) * temp on each axis, temp = 3 px * (1 - iter/50).
\* draws are the values Math.random returns, in tenths; used is how many
\* of them earlier iterations took.
RECURSIVE Perturbed(_, _, _, _, _)
Perturbed(points, i, iter, draws, used) ==
    IF i > Len(points) - 1 THEN points
    ELSE LET temp == (3 * PosScale * (AdvIterations - iter)) \div AdvIterations
             dx == ((draws[used + 1] - 5) * temp) \div 10
             dy == ((draws[used + 2] - 5) * temp) \div 10
         IN Perturbed([points EXCEPT ![i] = Vec(@.x + dx, @.y + dy)],
                      i + 1, iter, draws, used + 2)

\* the backward pass from point i down to the first
RECURSIVE BackwardPass(_, _, _)
BackwardPass(points, lengths, i) ==
    IF i < 1 THEN points
    ELSE LET next == points[i + 1]
             curr == points[i]
             dist == PointDistance(curr, next)
         IN BackwardPass(
               IF dist > 0
               THEN [points EXCEPT ![i] =
                        Vec(next.x + MulDivR(curr.x - next.x, lengths[i], dist),
                            next.y + MulDivR(curr.y - next.y, lengths[i], dist))]
               ELSE points,
               lengths, i - 1)

\* the joint limit of the forward pass: where point i + 1 goes
LimitedNext(points, i, nextPos, lengths, jointIds, rots, center) ==
    LET jointId == jointIds[i]
        curr == points[i]
        pId == JOINT_DEFS[jointId].parent
        pAngle == IF i = 1 /\ pId # NoJoint
                  THEN computeWorld(pId, rots, center).angle
                  ELSE IF i > 1
                  THEN r2d(Atan2Long(points[i].y - points[i - 1].y,
                                     points[i].x - points[i - 1].x))
                  ELSE 0
        angle == r2d(Atan2Long(nextPos.y - curr.y, nextPos.x - curr.x))
        local == normA(angle - pAngle)
        lim == JOINT_LIMITS[jointId]
        clampedGlobal == d2r(pAngle + Clamp(local, lim.min, lim.max))
    IN IF jointId \notin DOMAIN JOINT_LIMITS THEN nextPos
       ELSE IF local < lim.min \/ local > lim.max
       THEN Vec(curr.x + RDiv(Cos(clampedGlobal) * lengths[i], TrigScale),
                curr.y + RDiv(Sin(clampedGlobal) * lengths[i], TrigScale))
       ELSE nextPos

\* the forward pass from point i up
RECURSIVE ForwardPass(_, _, _, _, _, _)
ForwardPass(points, lengths, i, jointIds, rots, center) ==
    IF i > Len(points) - 1 THEN points
    ELSE LET curr == points[i]
             next == points[i + 1]
             dist == PointDistance(next, curr)
             nextPos == Vec(curr.x + MulDivR(next.x - curr.x, lengths[i], dist),
                            curr.y + MulDivR(next.y - curr.y, lengths[i], dist))
         IN ForwardPass(
               IF dist > 0
               THEN [points EXCEPT ![i + 1] =
                        LimitedNext(points, i, nextPos, lengths, jointIds, rots, center)]
               ELSE points,
               lengths, i + 1, jointIds, rots, center)

\* the local rotation of chain joint i from the final points
LocalAngle(finalPoints, i, jointIds, rots, center) ==
    LET jointId == jointIds[i]
        pId == JOINT_DEFS[jointId].parent
        parentGlobalAngle ==
            IF i = 1
            THEN IF pId # NoJoint /\ pId # "root"
                 THEN computeWorld(pId, rots, center).angle
                 ELSE 0
            ELSE r2d(Atan2Long(finalPoints[i].y - finalPoints[i - 1].y,
                               finalPoints[i].x - finalPoints[i - 1].x))
        boneGlobalAngle == r2d(Atan2Long(finalPoints[i + 1].y - finalPoints[i].y,
                                         finalPoints[i + 1].x - finalPoints[i].x))
        localAngle == normA(boneGlobalAngle - parentGlobalAngle)
    IN IF jointId \in DOMAIN JOINT_LIMITS
       THEN Clamp(localAngle, JOINT_LIMITS[jointId].min, JOINT_LIMITS[jointId].max)
       ELSE localAngle

\* finalRots begun as an empty map instead of a copy of currentRots
RECURSIVE FinalRotsFromEmpty(_, _, _, _, _)
FinalRotsFromEmpty(finalPoints, i, jointIds, rots, center) ==
    IF i > Len(jointIds) - 1 THEN <<>>
    ELSE (jointIds[i] :> LocalAngle(finalPoints, i, jointIds, rots, center))
            @@ FinalRotsFromEmpty(finalPoints, i + 1, jointIds, rots, center)

\* finalRots: currentRots with the non-effector chain joints i, i + 1, ...
\* replaced
RECURSIVE FinalRots(_, _, _, _, _)
FinalRots(finalPoints, i, jointIds, rots, center) ==
    IF i > Len(jointIds) - 1 THEN rots
    ELSE (jointIds[i] :> LocalAngle(finalPoints, i, jointIds, rots, center))
            @@ FinalRots(finalPoints, i + 1, jointIds, rots, center)

\* A call of solveIK_Advanced in progress is a record: phase says where
\* the call stands ("loop" before an iteration, "extract" after the loop,
\* "returned" at the end; NotCalled before any call), rots is the rotation
\* map it returns.  For the
\* record it keeps the distance of every configuration an iteration looked
\* at (dists), the iterations whose perturbation fired (fired) and what the
\* perturbation step of the latest iteration added to each point (shift).
\* solveIK_Advanced up to the for loop.  draws are the values Math.random
\* returns during the call, in tenths.
solveBegin(chainId, tgt, currentRots, center, draws) ==
    LET chainDef == IK_CHAINS[chainId]
        jointIds == chainDef.joints
        numPoints == Len(jointIds)
        chainPoints == [i \in 1 .. numPoints |->
                          LET world == computeWorld(jointIds[i], currentRots, center)
                          IN Vec(world.x, world.y)]
        chainLengths == [i \in 1 .. numPoints - 1 |->
                           Hypot(JOINT_DEFS[jointIds[i + 1]].pivot.x,
                                 JOINT_DEFS[jointIds[i + 1]].pivot.y)]
        totalChainLength == chainLengths[1] + chainLengths[2]
        softened == SoftTarget(chainPoints[1], tgt, totalChainLength,
                               chainDef.stretchRatio)
        biased == BiasedPoints(chainPoints, softened, chainLengths, chainDef)
    IN IF chainId \notin DOMAIN IK_CHAINS
       THEN [phase |-> "returned", ran |-> FALSE, rots |-> currentRots]
       ELSE IF numPoints < 2
       THEN [phase |-> "returned", ran |-> FALSE, rots |-> currentRots]
       ELSE [phase |-> "loop", ran |-> TRUE, rots |-> currentRots,
             chainId |-> chainId, jointIds |-> jointIds, center |-> center,
             draws |-> draws, goal |-> tgt, target |-> softened,
             lengths |-> chainLengths,
             base |-> chainPoints[1], points |-> biased, bestPoints |-> biased,
             bestDist |-> Infinity, iter |-> 0, dists |-> <<>>, fired |-> <<>>,
             used |-> 0, shift |-> [i \in 1 .. numPoints |-> Vec(0, 0)]]

\* the loop condition of solveIK_Advanced tested after iter++, with <= for <
AdvContinuesInclusive(iter) == iter <= AdvIterations

\* the loop condition of solveIK_Advanced: iter < iterations
AdvContinues(iter) == iter < AdvIterations

\* one iteration of the for loop of solveIK_Advanced
solveIterate(st) ==
    LET n == Len(st.points)
        currentDist == PointDistance(st.points[n], st.target)
        better == currentDist < st.bestDist
        tracked == [st EXCEPT !.bestDist = IF better THEN currentDist ELSE @,
                              !.bestPoints = IF better THEN st.points ELSE @,
                              !.dists = Append(@, currentDist)]
        fires == st.iter > 10 /\ st.iter % 5 = 0 /\ currentDist > Tolerance * 5
        nudged == IF fires THEN Perturbed(st.points, 2, st.iter, st.draws, st.used)
                  ELSE st.points
        backward == BackwardPass([nudged EXCEPT ![n] = st.target], st.lengths, n - 1)
        forward == ForwardPass([backward EXCEPT ![1] = st.base], st.lengths, 1,
                               st.jointIds, st.rots, st.center)
    IN IF currentDist < Tolerance
       THEN [tracked EXCEPT !.phase = "extract",
                            !.shift = [i \in 1 .. n |-> Vec(0, 0)]]
       ELSE [tracked EXCEPT !.points = forward,
                            !.shift = [i \in 1 .. n |-> VSub(nudged[i], st.points[i])],
                            !.fired = IF fires THEN Append(@, st.iter) ELSE @,
                            !.used = IF fires THEN @ + 2 * (n - 2) ELSE @,
                            !.iter = @ + 1,
                            !.phase = IF AdvContinues(st.iter + 1) THEN "loop"
                                      ELSE "extract"]

\* solveIK_Advanced after the loop: the rotation map from bestPoints
solveReturn(st) ==
    [st EXCEPT !.phase = "returned",
               !.rots = FinalRots(st.bestPoints, 1, st.jointIds, st.rots, st.center)]

\* the for loop of solveIK_Advanced run to its end
RECURSIVE solveLoop(_)
solveLoop(st) == IF st.phase = "loop" THEN solveLoop(solveIterate(st)) ELSE st

\* solveIK_Advanced as one call: the record it ends with (rots is the map
\* it returns)
solveIK_Advanced(chainId, tgt, currentRots, center, draws) ==
    LET Finish(st) == IF st.phase = "returned" THEN st ELSE solveReturn(st)
    IN Finish(solveLoop(solveBegin(chainId, tgt, currentRots, center, draws)))

\* ---- calls of solveIK_Advanced on the skeleton -------------------------

MaxSolves == 2

\* the values the calls are tried with
ChainInputs == DOMAIN IK_CHAINS \cup {"tail_chain"}
CenterInput == Vec(400 * PosScale, 300 * PosScale)
SkeletonTargets == {Vec(390 * PosScale, 300 * PosScale),
                    Vec(300 * PosScale, 260 * PosScale),
                    Vec(520 * PosScale, 300 * PosScale)}
\* Math.random at 0.5 throughout, and at 0.0 throughout
DrawInputs == {[i \in 1 .. 14 |-> 5], [i \in 1 .. 14 |-> 0]}

SkeletonStep(next) ==
    /\ lastSolve' = next
    /\ rotations' = IF next.phase = "returned" THEN next.rots ELSE rotations
    /\ UNCHANGED <<joints, chainVars, thrown, frameLog, last, frames, selectedJoint>>

\* a call begins; the skeleton passes its rotations
SolveBegin(chainId, tgt, draws) ==
    /\ lastSolve.phase \in {"idle", "returned"}
    /\ steps < MaxSolves
    /\ steps' = steps + 1
    /\ SkeletonStep(solveBegin(chainId, tgt, rotations, CenterInput, draws))

\* a call whose target is where the chain's effector stands
SolveAtEffector(chainId, draws) ==
    LET At(world) == SolveBegin(chainId, Vec(world.x, world.y), draws)
    IN At(computeWorld(IK_CHAINS[chainId].joints[Len(IK_CHAINS[chainId].joints)],
                       rotations, CenterInput))

SolveIterate ==
    /\ lastSolve.phase = "loop"
    /\ UNCHANGED steps
    /\ SkeletonStep(solveIterate(lastSolve))

\* the call returns; the skeleton takes the returned map as its rotations
SolveReturn ==
    /\ lastSolve.phase = "extract"
    /\ UNCHANGED steps
    /\ SkeletonStep(solveReturn(lastSolve))

NextAdvanced ==
    \/ \E chainId \in ChainInputs, tgt \in SkeletonTargets, draws \in DrawInputs :
          SolveBegin(chainId, tgt, draws)
    \/ \E chainId \in DOMAIN IK_CHAINS, draws \in DrawInputs :
          SolveAtEffector(chainId, draws)
    \/ SolveIterate
    \/ SolveReturn

SpecAdvanced == InitChain /\ [][NextAdvanced]_vars

\* calls for one chain after another, Math.random at 0.5 (a perturbation
\* that fires moves nothing)
ChainTargets == {Vec(300 * PosScale, 260 * PosScale), Vec(520 * PosScale, 300 * PosScale)}
ChainDraws == {[i \in 1 .. 14 |-> 5]}

NextChains ==
    \/ \E chainId \in ChainInputs, tgt \in ChainTargets, draws \in ChainDraws :
          SolveBegin(chainId, tgt, draws)
    \/ SolveIterate
    \/ SolveReturn

SpecChains == InitChain /\ [][NextChains]_vars

\* ---- calls of normA and computeWorld -----------------------------------

\* joint ids that are not strings of JOINT_DEFS: NoJoint stands for null
\* (as in the parent of "root"), these two for undefined and for ''
Undefined == "undefined"
EmptyString == "''"
Falsy(id) == id \in {NoJoint, Undefined, EmptyString}

\* computeWorld called with any id: the value it returns, or the error it
\* raises.  while (cur) takes no step for a falsy id; for any other id that
\* JOINT_DEFS lacks the path is the id alone and jDef.pivot reads a
\* property of undefined.
computeWorldCall(jointId, rots, canvasCenter) ==
    IF Falsy(jointId)
    THEN [thrown |-> "none", value |-> computeWorld(NoJoint, rots, canvasCenter)]
    ELSE IF jointId \notin DOMAIN JOINT_DEFS
    THEN [thrown |-> "TypeError"]
    ELSE [thrown |-> "none", value |-> computeWorld(jointId, rots, canvasCenter)]

MaxDegrees == 720

\* the values the calls are tried with
DegreeInputs == -MaxDegrees .. MaxDegrees
IdInputs == DOMAIN JOINT_DEFS \cup {"tail", NoJoint, Undefined, EmptyString}
ZeroRotations == {<<>>, [j \in DOMAIN JOINT_DEFS |-> 0]}
RotationInputs ==
    ZeroRotations \cup
    {"torso" :> 180 * DegScale, "torso" :> -180 * DegScale,
     "torso" :> 90 * DegScale @@ "l_collar" :> 90 * DegScale @@ "l_shoulder" :> 45 * DegScale,
     "waist" :> -135 * DegScale @@ "r_hip" :> -45 * DegScale @@ "r_knee" :> 400 * DegScale}
OriginInputs == {CenterInput, Vec(0, 0), Vec(-50 * PosScale, 120 * PosScale)}

\* The two functions read no state: a behaviour makes one call.

\* normA(a) for a whole number of degrees
NormA(a) ==
    /\ last.op = "new"
    /\ last' = [op |-> "normA", a |-> a * DegScale, b |-> normA(a * DegScale),
                pre |-> joints]
    /\ thrown' = "none"
    /\ UNCHANGED <<joints, chainVars, frameLog, steps, frames, selectedJoint, skeletonVars>>

\* computeWorld(jointId, rots, origin)
ComputeWorld(jointId, rots, origin) ==
    LET Called(result) ==
            /\ last' = [op |-> "computeWorld",
                        a |-> [jointId |-> jointId, rots |-> rots, origin |-> origin],
                        b |-> result, pre |-> joints]
            /\ thrown' = result.thrown
    IN /\ last.op = "new"
       /\ Called(computeWorldCall(jointId, rots, origin))
       /\ UNCHANGED <<joints, chainVars, frameLog, steps, frames, selectedJoint, skeletonVars>>

NextWorld ==
    \/ \E a \in DegreeInputs : NormA(a)
    \/ \E jointId \in IdInputs, rots \in RotationInputs, origin \in OriginInputs :
          ComputeWorld(jointId, rots, origin)

SpecWorld == InitChain /\ [][NextWorld]_vars

\* ---- solver invocations and the rounds of their loops -------------------

\* the passes the outer loop of solveCCD executes from pass iter on
RECURSIVE ccdPasses(_, _, _, _, _, _, _, _)
ccdPasses(js, order, endEffector, tgt, strength, iter, iters, thr) ==
    IF iter >= iters THEN 0
    ELSE LET Continue(passed) ==
                 IF VDistance(getEndEffectorPosition(passed, endEffector), tgt) < thr
                 THEN 1
                 ELSE 1 + ccdPasses(passed, order, endEffector, tgt, strength,
                                    iter + 1, iters, thr)
         IN Continue(ccdPass(js, order, Len(order), endEffector, tgt, strength))

\* the passes the outer loop of solveJacobian executes from pass iter on
RECURSIVE jacobianPasses(_, _, _, _, _, _, _)
jacobianPasses(js, order, endEffector, tgt, iter, iters, thr) ==
    IF iter >= iters THEN 0
    ELSE LET currentEnd == getEndEffectorPosition(js, endEffector)
             error == VSub(tgt, currentEnd)
         IN IF VMagnitude(error) < thr THEN 0
            ELSE 1 + jacobianPasses(
                        jacobianPass(js, order, 1, endEffector, currentEnd, error),
                        order, endEffector, tgt, iter + 1, iters, thr)

\* the sweeps the for loop of Joint.updateIK executes from iteration iter on
RECURSIVE ikSweeps(_, _, _, _, _, _, _)
ikSweeps(js, this, endEffector, tgt, iter, iters, thr) ==
    IF iter >= iters THEN 0
    ELSE LET Continue(swept) ==
                 IF VDistance(getEndEffectorPosition(swept, this), tgt) < thr THEN 1
                 ELSE 1 + ikSweeps(swept, this, endEffector, tgt, iter + 1, iters, thr)
         IN Continue(ikSweep(js, this, this, endEffector, tgt))

\* the joints one while (current) loop of Joint.updateIK goes through
RECURSIVE ikVisits(_, _)
ikVisits(js, current) ==
    IF current = NULL THEN <<>> ELSE <<current>> \o ikVisits(js, js[current].parent)

\* the rounds of the two while loops of MathUtils.normalizeAngle
RECURSIVE normalizeRounds(_)
normalizeRounds(a) ==
    IF a > PI THEN 1 + normalizeRounds(a - TwoPI)
    ELSE IF a < -PI THEN 1 + normalizeRounds(a + TwoPI)
    ELSE 0

\* angles handed to normalizeAngle are taken up to MaxTurns turns
MaxTurns == 4

CallOps == {"chainUpdateIK", "updateIK"}
\* no solver has been called yet
Editing == lastSolve.phase = "idle" /\ last.op \notin CallOps \cup {"updateFK"}

\* a call made once; it leaves the edit count alone
SolverCall(op, a, b, js) ==
    /\ Editing
    /\ joints' = js
    /\ last' = [op |-> op, a |-> a, b |-> b, pre |-> joints]
    /\ thrown' = "none"
    /\ UNCHANGED <<target, chainIkEnabled, threshold, ikStrength, frameLog, steps,
                   frames, selectedJoint, skeletonVars>>

\* chain.solverType = solver, chain.iterations = n, chain.updateIK()
ChainUpdateIK(solver, n) ==
    LET order == getAllJoints(joints, ROOT)
        endEffector == getDeepestJoint(joints, ROOT)
        passes == CASE solver = "ccd" ->
                         ccdPasses(joints, order, endEffector, target, ikStrength,
                                   0, n, threshold)
                    [] solver = "jacobian" ->
                         jacobianPasses(joints, order, endEffector, target, 0, n, threshold)
                    [] OTHER -> 1
    IN /\ Editing
       /\ solver = "jacobian"
            => jacobianFits(joints, order, endEffector, target, 0, n, threshold)
       /\ solverType' = solver
       /\ iterations' = n
       /\ SolverCall("chainUpdateIK", [solver |-> solver, iterations |-> n],
                     [passes |-> passes, visits |-> order],
                     chainUpdateIK([js |-> joints, log |-> <<>>], target, solver,
                                   ikStrength, n, threshold).js)

\* joint.updateIK(p, n, threshold)
JointUpdateIKCall(j, p, n) ==
    LET entered == /\ joints[j].ikEnabled
                   /\ joints[j].parent # NULL
                   /\ VDistance(getEndEffectorPosition(joints, j), p) >= threshold
    IN /\ SolverCall("updateIK", [joint |-> j, iterations |-> n],
                     [passes |-> IF entered
                                 THEN ikSweeps(joints, j, getEndEffectorPosition(joints, j),
                                               p, 0, n, threshold)
                                 ELSE 0,
                      visits |-> ikVisits(joints, j)],
                     jointUpdateIK(joints, j, p, n, threshold))
       /\ UNCHANGED <<solverType, iterations>>

\* joint.updateFK() after a solver call, as the joint is or with
\* angleWrapping = false and rotationSpeed = 1 written first
UpdateFKCall(j, wrapping) ==
    LET js == IF wrapping THEN joints
              ELSE [joints EXCEPT ![j].angleWrapping = FALSE,
                                  ![j].rotationSpeed = RatioScale]
        smoothed == IF Abs(js[j].angle - js[j].targetAngle) > SmoothEpsilon
                    THEN Lerp(js[j].angle, js[j].targetAngle, js[j].rotationSpeed)
                    ELSE js[j].angle
    IN /\ lastSolve.phase = "idle"
       /\ last.op \in CallOps
       /\ Abs(smoothed) <= MaxTurns * TwoPI
       /\ joints' = updateFK(js, j)
       /\ last' = [op |-> "updateFK", a |-> [joint |-> j, angle |-> smoothed],
                   b |-> [rounds |-> IF wrapping \/ ~joints[j].fkEnabled THEN 0
                                     ELSE normalizeRounds(smoothed)],
                   pre |-> joints]
       /\ thrown' = "none"
       /\ UNCHANGED <<chainVars, frameLog, steps, frames, selectedJoint, skeletonVars>>

\* tree and flag edits, then one solver call, then updateFK; or one call of
\* solveIK_Advanced stepped through its loop
NextSolvers ==
    \/ \E p \in Reachable(joints) \cup {NULL} : Editing /\ steps < MaxEdits /\ AddJoint(p)
    \/ \E j \in Reachable(joints) : Editing /\ IkToggle(j)
    \/ \E p \in TargetInputs : Editing /\ MoveTarget(p)
    \/ \E solver \in SolverTypes, n \in IterationInputs : ChainUpdateIK(solver, n)
    \/ \E j \in Reachable(joints), p \in IkTargetInputs, n \in IkIterationInputs :
          JointUpdateIKCall(j, p, n)
    \/ \E j \in Reachable(joints), wrapping \in BOOLEAN : UpdateFKCall(j, wrapping)
    \/ \E chainId \in ChainInputs, tgt \in SkeletonTargets, draws \in DrawInputs :
          last.op = "new" /\ lastSolve.phase = "idle" /\ SolveBegin(chainId, tgt, draws)
    \/ SolveIterate
    \/ SolveReturn

SpecSolvers == InitChain /\ [][NextSolvers]_vars

\* ---- the analytical solver on a chain of two joints --------------------

\* targets on a grid of 30 px around the root at (400, 300)
AnalyticalTargets ==
    {Vec((400 + 30 * i) * LenScale, (300 + 30 * k) * LenScale) : i, k \in -5 .. 5}

\* the delete key on a joint without children
TrimJoint(j) ==
    /\ last.op # "solveAnalytical"
    /\ j # ROOT
    /\ joints[j].children = <<>>
    /\ RemoveJoint(j)

\* the analytical solver selected, the target dragged to p, one update
AnalyticalUpdate(p) ==
    /\ last.op # "solveAnalytical"
    /\ Len(getAllJoints(joints, ROOT)) = 2
    /\ joints' = chainUpdate([js |-> joints, log |-> <<>>], p, TRUE, "analytical",
                              ikStrength, iterations, threshold).js
    /\ target' = p
    /\ solverType' = "analytical"
    /\ last' = [op |-> "solveAnalytical", a |-> p, b |-> NULL,
                pre |-> updateAllFK([js |-> joints, log |-> <<>>],
                                    getAllJoints(joints, ROOT), 1).js]
    /\ thrown' = "none"
    /\ UNCHANGED <<chainIkEnabled, iterations, threshold, ikStrength, frameLog,
                   steps, frames, selectedJoint, skeletonVars>>

NextAnalytical ==
    \/ \E j \in Reachable(joints) : TrimJoint(j)
    \/ \E p \in AnalyticalTargets : AnalyticalUpdate(p)

SpecAnalytical == InitChain /\ [][NextAnalytical]_vars

\* ---- smoothing: one joint eased toward a target angle held fixed -------

\* the end joint of the default chain: fkEnabled, constraints disabled
SmoothJoint == Cardinality(DOMAIN initializeDefaultChain)
\* target angles: negative, within [0, 2 pi), 2 pi and more
SmoothTargets == {-PI, -AngleScale, AngleScale, 3 * AngleScale, TwoPI, 7 * AngleScale}

\* joint.angleWrapping = wrapping; joint.setAngle(a)
SmoothSetAngle(a, wrapping) ==
    /\ last.op = "new"
    /\ joints' = setAngle([joints EXCEPT ![SmoothJoint].angleWrapping = wrapping],
                          SmoothJoint, a)
    /\ last' = [op |-> "setAngle", a |-> SmoothJoint, b |-> a, pre |-> joints]
    /\ UNCHANGED <<chainVars, thrown, frameLog, steps, frames, selectedJoint, skeletonVars>>

\* joint.updateFK(), called once per frame with the target left alone.
\* last.b remembers an angle the joint had before one of the calls so far:
\* the one before this call, or the one remembered already.
SmoothUpdateFK ==
    /\ last.op \in {"setAngle", "updateFK"}
    /\ joints' = updateFK(joints, SmoothJoint)
    /\ \E keep \in BOOLEAN :
          last' = [op |-> "updateFK", a |-> SmoothJoint,
                   b |-> IF keep /\ last.op = "updateFK" THEN last.b
                         ELSE joints[SmoothJoint].angle,
                   pre |-> joints]
    /\ UNCHANGED <<chainVars, thrown, frameLog, steps, frames, selectedJoint, skeletonVars>>

NextSmooth ==
    \/ \E a \in SmoothTargets, wrapping \in BOOLEAN : SmoothSetAngle(a, wrapping)
    \/ SmoothUpdateFK

SpecSmooth == InitChain /\ [][NextSmooth]_vars

\* ---- the soft reach of solveIK_Advanced on its own ----------------------

\* root-to-target distances in px: below the soft threshold of every chain
\* (53.9 px arms, 69.75 px legs), within three softDist above it, and at
\* 37 softDist or more above it, where 1 - Math.exp(-x) is 1 in doubles
ReachDistances == {20, 40, 54, 56, 60, 64, 68, 70, 72, 420, 450, 480}
\* directions from the root, in fifths
ReachDirections == {Vec(5, 0), Vec(0, -5), Vec(-3, 4), Vec(4, 3)}

\* lines 57-75 for a chain in the rest pose and a target d px from its root
SoftReach(chainId, d, dir) ==
    LET jointIds == IK_CHAINS[chainId].joints
        world == computeWorld(jointIds[1], <<>>, CenterInput)
        base == Vec(world.x, world.y)
        tgt == Vec(base.x + (d * PosScale * dir.x) \div 5,
                   base.y + (d * PosScale * dir.y) \div 5)
        total == Hypot(JOINT_DEFS[jointIds[2]].pivot.x, JOINT_DEFS[jointIds[2]].pivot.y)
                 + Hypot(JOINT_DEFS[jointIds[3]].pivot.x, JOINT_DEFS[jointIds[3]].pivot.y)
        ratio == IK_CHAINS[chainId].stretchRatio
    IN /\ last.op = "new"
       /\ last' = [op |-> "softReach",
                   a |-> [base |-> base, target |-> tgt, total |-> total,
                          stretchRatio |-> ratio],
                   b |-> SoftTarget(base, tgt, total, ratio), pre |-> joints]
       /\ UNCHANGED <<joints, chainVars, thrown, frameLog, steps, frames, selectedJoint, skeletonVars>>

NextSoftReach ==
    \E chainId \in DOMAIN IK_CHAINS, d \in ReachDistances, dir \in ReachDirections :
        SoftReach(chainId, d, dir)

SpecSoftReach == InitChain /\ [][NextSoftReach]_vars

\* ---- the renderer's pass over HIERARCHY --------------------------------

\* HIERARCHY with the hips listed ahead of the waist they hang from
HierarchyHipsFirst ==
    <<"root", "torso", "l_hip", "r_hip", "waist", "neck", "l_collar", "r_collar",
      "head", "nose", "l_shoulder", "r_shoulder", "l_elbow", "r_elbow",
      "l_wrist", "r_wrist", "l_knee", "r_knee", "l_ankle", "r_ankle",
      "l_toe", "r_toe">>

\* BITRUVIUS_DATA.HIERARCHY: the ids in the order of the array (the depth
\* numbers beside them are read nowhere)
HIERARCHY ==
    <<"root", "torso", "waist", "neck", "l_collar", "r_collar", "head", "nose",
      "l_shoulder", "r_shoulder", "l_elbow", "r_elbow", "l_wrist", "r_wrist",
      "l_hip", "r_hip", "l_knee", "r_knee", "l_ankle", "r_ankle",
      "l_toe", "r_toe">>

\* SkeletonRenderer.render begins: positions = {}
RenderBegin(rots, origin) ==
    /\ last.op = "new"
    /\ last' = [op |-> "render", a |-> [rots |-> rots, origin |-> origin],
                b |-> [visited |-> <<>>, positions |-> <<>>], pre |-> joints]
    /\ UNCHANGED <<joints, chainVars, thrown, frameLog, steps, frames, selectedJoint, skeletonVars>>

\* one step of HIERARCHY.forEach(([id]) => positions[id] = computeWorld(...))
RenderVisit ==
    LET id == HIERARCHY[Len(last.b.visited) + 1]
        Placed(t) == [visited |-> Append(last.b.visited, id),
                      positions |-> (id :> Vec(t.x, t.y)) @@ last.b.positions]
    IN /\ last.op = "render"
       /\ Len(last.b.visited) < Len(HIERARCHY)
       /\ last' = [last EXCEPT !.b = Placed(computeWorld(id, last.a.rots, last.a.origin))]
       /\ UNCHANGED <<joints, chainVars, thrown, frameLog, steps, frames, selectedJoint, skeletonVars>>

NextRender ==
    \/ \E rots \in RotationInputs, origin \in OriginInputs : RenderBegin(rots, origin)
    \/ RenderVisit

SpecRender == InitChain /\ [][NextRender]_vars

\* ---- structure predicates -----------------------------------------------

Occurrences(seq, e) == Cardinality({i \in 1 .. Len(seq) : seq[i] = e})

\* the chain of parent links from j reaches the root within n links
RECURSIVE ReachesRoot(_, _, _)
ReachesRoot(js, j, n) ==
    IF j = ROOT THEN TRUE
    ELSE IF n = 0 \/ js[j].parent = NULL THEN FALSE
    ELSE ReachesRoot(js, js[j].parent, n - 1)

SingleParentTree(js) ==
    /\ js[ROOT].parent = NULL
    /\ \A j \in Reachable(js) \ {ROOT} :
          /\ js[j].parent # NULL
          /\ Occurrences(js[js[j].parent].children, j) = 1
          /\ \A q \in DOMAIN js \ {js[j].parent} : Occurrences(js[q].children, j) = 0
    /\ \A j \in Reachable(js) : ReachesRoot(js, j, Cardinality(DOMAIN js))

\* C1: removeJoint on a non-root joint j of the tree, with parent p and
\* children c1..ck, completes without error; afterwards j is unreachable
\* from the root, every ci is a child of p with ci.parent = p, exactly one
\* joint fewer is reachable, and every ci keeps its position.
C1_RemoveJointReparents ==
    (/\ last.op = "removeJoint"
     /\ last.a # ROOT
     /\ SingleParentTree(last.pre)
     /\ last.a \in Reachable(last.pre))
    => LET j == last.a
           p == last.pre[j].parent
           cs == ChildSet(last.pre, j)
       IN /\ thrown = "none"
          /\ j \notin Reachable(joints)
          /\ \A c \in cs : c \in ChildSet(joints, p) /\ joints[c].parent = p
          /\ Cardinality(Reachable(joints)) = Cardinality(Reachable(last.pre)) - 1
          /\ \A c \in cs : joints[c].position = last.pre[c].position

\* C2: after any sequence of addChild, removeChild, addJoint and removeJoint
\* calls the joints reachable from the root form a single-parent tree.
C2_SingleParentTree == SingleParentTree(joints)

\* ---- frame predicates ---------------------------------------------------

\* positions in the frame log of the events of one kind
EventsOf(kind) == {i \in 1 .. Len(frameLog) : frameLog[i].kind = kind}

\* the solver the last frame ran, "" if none
SolverRun ==
    IF EventsOf("solve") = {} THEN ""
    ELSE frameLog[CHOOSE i \in EventsOf("solve") : TRUE].solver

\* the joints as the updateFK loop of the last frame left them
AfterFK == updateAllFK([js |-> last.pre, log |-> <<>>],
                       getAllJoints(last.pre, ROOT), 1).js

InRange(j) == /\ j.angle >= j.constraints.minAngle
              /\ j.angle <= j.constraints.maxAngle

\* C4: after each JointChain.update every joint of the tree with
\* constraints.enabled has its angle within [minAngle, maxAngle], whatever
\* edits were made between the frames.
C4_AngleWithinConstraints ==
    last.op = "animate"
    => \A j \in Reachable(joints) :
          joints[j].constraints.enabled => InRange(joints[j])

\* C3: after a solver invocation every joint with an active constraint
\* (constraints.enabled, minAngle <= maxAngle) that was within range before
\* the call has its angle within [minAngle, maxAngle]; stated for
\* Joint.updateIK with ikWeight anywhere in the slider's range.
C3_UpdateIKKeepsConstraints ==
    last.op = "updateIK"
    => \A j \in Reachable(joints) :
          (/\ joints[j].constraints.enabled
           /\ joints[j].constraints.minAngle <= joints[j].constraints.maxAngle
           /\ InRange(last.pre[j]))
          => InRange(joints[j])

\* worldTransform as the joint's angle, position and parent give it
ExpectedWorld(js, j) ==
    LET local == MatMultiply(MatRotation(js[j].angle),
                             MatTranslation(js[j].position.x, js[j].position.y))
    IN IF js[j].parent # NULL
       THEN MatMultiply(js[js[j].parent].worldTransform, local)
       ELSE local

\* C6: when JointChain.update returns, every joint's worldTransform equals
\* parent.worldTransform x localTransform(angle, position) (localTransform
\* for the root), whichever solver ran.
C6_TransformsConsistent ==
    (last.op = "animate" /\ SolverRun \in SolverTypes)
    => \A j \in Reachable(joints) : joints[j].worldTransform = ExpectedWorld(joints, j)

RECURSIVE SumLengths(_, _, _)
SumLengths(js, order, i) ==
    IF i > Len(order) THEN 0 ELSE js[order[i]].length + SumLengths(js, order, i + 1)
TotalLength(js) == SumLengths(js, getAllJoints(js, ROOT), 1)

NoConflictingConstraints(js) ==
    \A j \in Reachable(js) :
        js[j].constraints.enabled => js[j].constraints.minAngle <= js[j].constraints.maxAngle

\* C7: for a chain without conflicting constraints and a target no
\* farther from the root than the total chain length, one invocation of
\* solveCCD, solveFABRIK or solveJacobian leaves the end effector within
\* threshold of the target.
C7_SolverReachesTarget ==
    (/\ last.op = "animate"
     /\ SolverRun \in {"ccd", "fabrik", "jacobian"}
     /\ NoConflictingConstraints(AfterFK)
     /\ VDistance(getWorldPosition(AfterFK, ROOT), target) <= TotalLength(AfterFK))
    => VDistance(getEndEffectorPosition(joints, getDeepestJoint(joints, ROOT)), target)
          < threshold

\* C8: a frame runs updateFK for every joint of the tree before any solver
\* step; the solver step runs at most once, only with chain.ikEnabled and a
\* target, and is the solver solverType names (none for an unknown name);
\* render comes after update has returned.
C8_FrameOrder ==
    last.op = "animate"
    => LET order == getAllJoints(last.pre, ROOT)
           n == Len(order)
       IN /\ Len(frameLog) >= n + 2
          /\ \A i \in 1 .. n : frameLog[i] = Event("updateFK", order[i], "")
          /\ {order[i] : i \in 1 .. n} = Reachable(last.pre)
          /\ EventsOf("updateFK") = 1 .. n
          /\ Cardinality(EventsOf("solve")) <= 1
          /\ \A i \in EventsOf("solve") :
                /\ i = n + 1
                /\ chainIkEnabled
                /\ target # NoTarget
                /\ frameLog[i].solver = solverType
                /\ solverType \in SolverTypes
          /\ (chainIkEnabled /\ target # NoTarget /\ solverType \in SolverTypes)
                => EventsOf("solve") # {}
          /\ EventsOf("render") = {Len(frameLog)}

\* a frame with every joint's updateFK, then the selected solver, then render
C8_Witness ==
    /\ last.op = "animate"
    /\ SolverRun = "fabrik"
    /\ Len(frameLog) = Len(getAllJoints(last.pre, ROOT)) + 3

\* C9 as stated: with the target removed no update invokes a solver and
\* every joint's angle stays at the value it had.
C9_AnglesHoldWithoutTarget ==
    (last.op = "animate" /\ target = NoTarget)
    => /\ EventsOf("solve") = {}
       /\ \A j \in Reachable(last.pre) : joints[j].angle = last.pre[j].angle

\* C9 amended: with the target removed no update invokes a solver and every
\* joint's targetAngle (the value the last solve commanded) stays as it
\* was; angle is the value updateFK's smoothing gives, which keeps moving
\* toward targetAngle.
C9_TargetAnglesHold ==
    (last.op = "animate" /\ target = NoTarget)
    => /\ EventsOf("solve") = {}
       /\ \A j \in Reachable(last.pre) :
             /\ joints[j].targetAngle = last.pre[j].targetAngle
             /\ joints[j].angle = AfterFK[j].angle

\* a frame without target in which an angle moved toward its targetAngle
C9_Witness ==
    /\ last.op = "animate"
    /\ target = NoTarget
    /\ \E j \in Reachable(last.pre) :
          /\ joints[j].angle # last.pre[j].angle
          /\ last.pre[j].targetAngle # last.pre[j].angle

\* C10: solveCCD, solveFABRIK and solveJacobian change no joint's angle or
\* targetAngle when the tree consists of the root only.
C10_RootOnlyNoOp ==
    (/\ last.op = "animate"
     /\ Reachable(last.pre) = {ROOT}
     /\ SolverRun \in {"ccd", "fabrik", "jacobian"})
    => /\ joints[ROOT].angle = AfterFK[ROOT].angle
       /\ joints[ROOT].targetAngle = AfterFK[ROOT].targetAngle

\* ---- skeleton predicates ------------------------------------------------

\* the distance from the effector point of a configuration to the target
\* the call aims at
EffectorDistance(points) == PointDistance(points[Len(points)], lastSolve.target)

\* C5: the configuration the returned angles come from (bestPoints) is no
\* farther from the target than any configuration the call produced, the
\* one the last executed iteration produced included.
C5_BestIsClosest ==
    (lastSolve.phase = "returned" /\ lastSolve.ran)
    => /\ \A i \in DOMAIN lastSolve.dists :
             EffectorDistance(lastSolve.bestPoints) <= lastSolve.dists[i]
       /\ EffectorDistance(lastSolve.bestPoints) <= EffectorDistance(lastSolve.points)

\* C11: JointChain.solveAnalytical changes no joint's angle or targetAngle
\* when getAllJointsInOrder returns other than exactly two joints.
C11_AnalyticalNeedsTwoJoints ==
    (/\ last.op = "animate"
     /\ SolverRun = "analytical"
     /\ Len(getAllJoints(last.pre, ROOT)) # 2)
    => \A j \in Reachable(last.pre) :
          /\ joints[j].angle = AfterFK[j].angle
          /\ joints[j].targetAngle = AfterFK[j].targetAngle

\* a frame that called solveAnalytical on the four joints of the default chain
C11_Witness ==
    /\ last.op = "animate"
    /\ SolverRun = "analytical"
    /\ Len(getAllJoints(last.pre, ROOT)) = 4
    /\ target # NoTarget

\* the joints a returned call wrote: the non-effector joints of its chain
WrittenBy(st) ==
    IF st.phase = "returned" /\ st.ran
    THEN {st.jointIds[i] : i \in 1 .. Len(st.jointIds) - 1}
    ELSE {}

\* two rotation maps agree at joint j (same entry, or none in both)
SameAt(a, b, j) ==
    /\ j \in DOMAIN a <=> j \in DOMAIN b
    /\ j \in DOMAIN a => a[j] = b[j]

\* the target the other chain is solved for in the exchange of two calls
ExchangeTarget == Vec(300 * PosScale, 260 * PosScale)

\* the call that just returned (chain A, from the map rotations) followed
\* by a call for another chain B gives the map that B followed by A gives
SolvesCommute ==
    \A other \in DOMAIN IK_CHAINS \ {lastSolve'.chainId} :
        LET draws == lastSolve'.draws
            Second(first) ==
                solveIK_Advanced(lastSolve'.chainId, lastSolve'.goal, first.rots,
                                 CenterInput, draws).rots
        IN solveIK_Advanced(other, ExchangeTarget, rotations', CenterInput, draws).rots
              = Second(solveIK_Advanced(other, ExchangeTarget, rotations,
                                        CenterInput, draws))

\* C12: solveIK_Advanced leaves the rotation map passed in as it was; the
\* map it returns differs from it only at the non-effector joints of the
\* chain solved, so the rotations of every other chain's joints stay; and
\* two different configured chains solved in either order, no perturbation
\* moving a point, give the same rotations.
C12_ChainsIndependent ==
    [][/\ lastSolve'.phase \in {"loop", "extract"}
          => lastSolve'.rots = rotations /\ rotations' = rotations
       /\ lastSolve'.phase = "returned"
          => \A j \in DOMAIN JOINT_DEFS \ WrittenBy(lastSolve') :
                SameAt(rotations', rotations, j)
       /\ (lastSolve.phase = "extract" /\ lastSolve'.phase = "returned" /\ steps = 1)
          => SolvesCommute]_vars

\* a second call has returned, for a chain other than the one whose joints
\* the map passed in already held, and has written its own joints
C12_Witness ==
    /\ lastSolve.phase = "returned"
    /\ lastSolve.ran
    /\ steps = 2
    /\ \E j \in DOMAIN rotations \ WrittenBy(lastSolve) : rotations[j] # 0
    /\ \E j \in WrittenBy(lastSolve) : rotations[j] # 0

\* the call in progress was given the position of its chain's effector as
\* target: the chain is converged before the call
AtEffector(st, rots) ==
    /\ st.ran
    /\ LET world == computeWorld(st.jointIds[Len(st.jointIds)], rots, st.center)
       IN st.goal = Vec(world.x, world.y)

\* C13: solveIK_Advanced called on an arm or leg chain whose effector
\* already coincides with the target returns, for the chain's joints, the
\* rotations it was given (here: within one degree of them).
C13_ConvergedStays ==
    [][(/\ lastSolve.phase = "extract"
        /\ lastSolve'.phase = "returned"
        /\ AtEffector(lastSolve, rotations))
       => \A j \in WrittenBy(lastSolve') :
             Abs(Rot(rotations', j) - Rot(rotations, j)) <= DegScale]_vars

\* C14: in bestPoints, the configuration solveIK_Advanced derives its
\* angles from, consecutive points are separated by the segment length of
\* the pair (here: within a tenth of a pixel), for every target and pose.
C14_SegmentsRigid ==
    (lastSolve.phase = "returned" /\ lastSolve.ran)
    => \A i \in DOMAIN lastSolve.lengths :
          Abs(PointDistance(lastSolve.bestPoints[i + 1], lastSolve.bestPoints[i])
                 - lastSolve.lengths[i]) <= PosScale \div 10

\* ---- predicates on normA and computeWorld -------------------------------

\* r equals a modulo a full turn
Congruent(r, a) == (r - a) % (360 * DegScale) = 0

\* the world transform the last computeWorld call returned, if it returned
Returned == last.op = "computeWorld" /\ last.b.thrown = "none"

\* C15 as stated: normA maps every whole number of degrees into
\* (-180, 180], congruent to it modulo 360, and the angle and parentAngle
\* computeWorld returns lie in that range.
C15_NormAHalfOpenBelow ==
    /\ last.op = "normA"
       => /\ Congruent(last.b, last.a)
          /\ last.b > -180 * DegScale
          /\ last.b <= 180 * DegScale
    /\ Returned
       => /\ last.b.value.angle > -180 * DegScale
          /\ last.b.value.angle <= 180 * DegScale
          /\ last.b.value.parentAngle > -180 * DegScale
          /\ last.b.value.parentAngle <= 180 * DegScale

\* C15 amended: normA maps every whole number of degrees into [-180, 180),
\* congruent to it modulo 360 (normA(180) = -180), and the angle and
\* parentAngle computeWorld returns lie in that range.
C15_NormAHalfOpenAbove ==
    /\ last.op = "normA"
       => /\ Congruent(last.b, last.a)
          /\ last.b >= -180 * DegScale
          /\ last.b < 180 * DegScale
    /\ Returned
       => /\ last.b.value.angle >= -180 * DegScale
          /\ last.b.value.angle < 180 * DegScale
          /\ last.b.value.parentAngle >= -180 * DegScale
          /\ last.b.value.parentAngle < 180 * DegScale

\* normA(180) has been called and has returned -180
C15_Witness ==
    /\ last.op = "normA"
    /\ last.a = 180 * DegScale
    /\ last.b = -180 * DegScale

\* ---- predicates on Joint.updateFK ---------------------------------------

\* the joint the last updateFK call ran on, with fkEnabled and without
\* constraints
FreeJointUpdated ==
    /\ last.op = "updateFK"
    /\ joints[last.a].fkEnabled
    /\ ~joints[last.a].constraints.enabled

\* C16 as stated: after Joint.updateFK on a joint with fkEnabled and
\* constraints disabled, angle lies in [0, 2 pi) with angleWrapping and in
\* (-pi, pi] without.
C16_AngleRangeOpenBelow ==
    FreeJointUpdated
    => IF joints[last.a].angleWrapping
       THEN joints[last.a].angle >= 0 /\ joints[last.a].angle < TwoPI
       ELSE joints[last.a].angle > -PI /\ joints[last.a].angle <= PI

\* C16 amended: after Joint.updateFK on a joint with fkEnabled and
\* constraints disabled, angle lies in [0, 2 pi) with angleWrapping and in
\* [-pi, pi] without: an angle of exactly -pi stays.
C16_AngleRangeClosed ==
    FreeJointUpdated
    => IF joints[last.a].angleWrapping
       THEN joints[last.a].angle >= 0 /\ joints[last.a].angle < TwoPI
       ELSE joints[last.a].angle >= -PI /\ joints[last.a].angle <= PI

\* updateFK has left a joint without wrapping at exactly -pi
C16_Witness ==
    /\ FreeJointUpdated
    /\ ~joints[last.a].angleWrapping
    /\ joints[last.a].angle = -PI
    /\ last.pre[last.a].angle # -PI

\* the sum of the pivot offsets of the joints of a path, "root" left out
RECURSIVE PivotSum(_, _)
PivotSum(path, i) ==
    IF i > Len(path) THEN Vec(0, 0)
    ELSE IF path[i] = "root" THEN PivotSum(path, i + 1)
    ELSE VAdd(JOINT_DEFS[path[i]].pivot, PivotSum(path, i + 1))

\* the last call was computeWorld for a joint of JOINT_DEFS with every
\* rotation zero
ZeroPoseCall ==
    /\ last.op = "computeWorld"
    /\ last.a.jointId \in DOMAIN JOINT_DEFS
    /\ last.a.rots \in ZeroRotations

\* C17: with all rotations zero, computeWorld returns for every joint id of
\* JOINT_DEFS and every origin the origin plus the sum of the pivot offsets
\* of the joints on the path from the root to the joint, with angle 0 and
\* parentAngle 0.
C17_ZeroPoseIsPivotSum ==
    ZeroPoseCall
    => /\ last.b.thrown = "none"
       /\ Vec(last.b.value.x, last.b.value.y)
             = VAdd(last.a.origin, PivotSum(PathTo(last.a.jointId), 1))
       /\ last.b.value.angle = 0
       /\ last.b.value.parentAngle = 0

\* computeWorld("l_wrist") in the zero pose from an origin other than the
\* canvas centre: five pivot offsets summed
C17_Witness ==
    /\ ZeroPoseCall
    /\ last.a.jointId = "l_wrist"
    /\ last.a.origin = Vec(-50 * PosScale, 120 * PosScale)
    /\ last.b.value.x = (-50 - 32 - 22 - 30 - 25) * PosScale
    /\ last.b.value.y = (120 - 58 - 13) * PosScale

\* C18: computeWorld returns a result for every joint id defined in
\* JOINT_DEFS and raises an error for every id that is not defined there
\* (an unknown string, null, undefined, the empty string).
C18_UndefinedIdRaises ==
    last.op = "computeWorld"
    => IF last.a.jointId \in DOMAIN JOINT_DEFS
       THEN thrown = "none"
       ELSE thrown # "none"

\* C19: JointChain.update (updateFK and the solvers), JointChain.addJoint
\* and JointChain.removeJoint complete without raising an error on every
\* state reachable from the default chain by these operations.
C19_NoErrorRaised ==
    last.op \in {"animate", "addJoint", "removeJoint"} => thrown = "none"

\* ---- predicates on serialization ----------------------------------------

\* the joints a serialized chain holds fields of
RecordedJoints(data) == {data.root.id}

\* C20: the record JointChain.serialize produces holds, for every joint of
\* the tree, its angle, targetAngle, constraints, fkEnabled and ikEnabled,
\* and shares no mutable object with the live joints: writing the
\* constraints of a deserialized joint leaves the constraints of every
\* live joint as they were.
C20_SerializeRoundTrip ==
    /\ (last.op = "serialize" /\ thrown = "none")
       => \A j \in Reachable(joints) : j \in RecordedJoints(last.b.value)
    /\ last.op = "restoredMinAngle"
       => \A j \in Reachable(joints) : joints[j].constraints = last.pre[j].constraints

\* ---- predicates on the skeleton's traversal order -------------------------

\* C21: HIERARCHY is a topological order of JOINT_DEFS: as the renderer
\* walks it, every id it comes to is a joint of JOINT_DEFS not met before
\* whose parent has been met, and at the end every joint has been met.
C21_HierarchyTopological ==
    last.op = "render"
    => LET seen == last.b.visited
       IN /\ \A i \in 1 .. Len(seen) :
                /\ seen[i] \in DOMAIN JOINT_DEFS
                /\ \A k \in 1 .. (i - 1) : seen[k] # seen[i]
                /\ JOINT_DEFS[seen[i]].parent # NoJoint
                   => \E k \in 1 .. (i - 1) : seen[k] = JOINT_DEFS[seen[i]].parent
          /\ Len(seen) = Len(HIERARCHY)
             => {seen[i] : i \in 1 .. Len(seen)} = DOMAIN JOINT_DEFS

\* the pass has come to its end with a position for each of the 22 joints
C21_Witness ==
    /\ last.op = "render"
    /\ Len(last.b.visited) = Len(HIERARCHY)
    /\ DOMAIN last.b.positions = DOMAIN JOINT_DEFS
    /\ last.b.visited[Len(HIERARCHY)] = "r_toe"

\* the iterations of the call so far at which the perturbation was due:
\* past 10, a multiple of 5, the distance above five times the tolerance
DueIterations(st) ==
    {k \in 0 .. Len(st.dists) - 1 :
        k > 10 /\ k % 5 = 0 /\ st.dists[k + 1] > Tolerance * 5}

\* C22: the perturbation fires exactly at the iterations 15, 20, ..., 45 at
\* which the effector distance exceeds 5 x tolerance; it moves interior
\* points only, each coordinate by at most 1.5 px x (1 - iter/50).
C22_PerturbationSchedule ==
    (lastSolve.phase \in {"loop", "extract"} /\ Len(lastSolve.dists) > 0)
    => LET k == Len(lastSolve.dists) - 1
           n == Len(lastSolve.points)
           bound == (3 * PosScale * (AdvIterations - k)) \div (2 * AdvIterations)
           moved == {i \in 1 .. n : lastSolve.shift[i] # Vec(0, 0)}
       IN /\ {lastSolve.fired[i] : i \in DOMAIN lastSolve.fired} = DueIterations(lastSolve)
          /\ DueIterations(lastSolve) \subseteq {15, 20, 25, 30, 35, 40, 45}
          /\ moved \subseteq 2 .. n - 1
          /\ moved # {} => k \in DueIterations(lastSolve)
          /\ \A i \in moved : /\ Abs(lastSolve.shift[i].x) <= bound
                              /\ Abs(lastSolve.shift[i].y) <= bound
          /\ bound <= (3 * PosScale) \div 2

\* the perturbation has fired at iterations 15 and 20 and the second time
\* moved the interior point by the full bound of iteration 20, 0.9 px
C22_Witness ==
    /\ lastSolve.phase = "loop"
    /\ lastSolve.fired = <<15, 20>>
    /\ Len(lastSolve.dists) = 21
    /\ lastSolve.shift[2] = Vec(-900, -900)

\* the quantities of a soft reach call, handed to P: the requested
\* distance, the effective distance, the threshold and the limit
SoftReachCase(P(_, _, _, _)) ==
    last.op = "softReach"
    => LET stretchLimit == RDiv(last.a.total * last.a.stretchRatio, 100)
       IN P(PointDistance(last.a.target, last.a.base),
            PointDistance(last.b, last.a.base),
            stretchLimit - RDiv(last.a.total * 12, 100), stretchLimit)

\* the effective target on the ray from the root through the target
OnRay(effective) ==
    LET d == PointDistance(last.a.target, last.a.base)
        along(c, e) == Abs(c - MulDivR(e, effective, d)) <= PosScale \div 200
    IN /\ along(last.b.x - last.a.base.x, last.a.target.x - last.a.base.x)
       /\ along(last.b.y - last.a.base.y, last.a.target.y - last.a.base.y)

\* C23 as stated: past the threshold the effective distance lies strictly
\* between softThreshold and stretchLimit.
C23_SoftReachStrictlyInside ==
    LET Inside(d, effective, softThreshold, stretchLimit) ==
            d > softThreshold => softThreshold < effective /\ effective < stretchLimit
    IN SoftReachCase(Inside)

\* C23: up to softThreshold the effective target is the requested one;
\* past it the effective target lies on the ray from the root through the
\* requested target, farther than softThreshold, not farther than
\* stretchLimit and not farther than the requested target (to 0.005 px).
C23_SoftReachDamped ==
    LET Damped(d, effective, softThreshold, stretchLimit) ==
            /\ d <= softThreshold => last.b = last.a.target
            /\ d > softThreshold =>
                 /\ OnRay(effective)
                 /\ softThreshold < effective
                 /\ effective <= stretchLimit + PosScale \div 200
                 /\ effective <= d + PosScale \div 200
                 /\ d - effective <= d - softThreshold
    IN SoftReachCase(Damped)

\* a leg target 2.25 px past the threshold, pulled back but left past it
C23_Witness ==
    LET Pulled(d, effective, softThreshold, stretchLimit) ==
            /\ d = 72 * PosScale
            /\ last.a.stretchRatio = 105
            /\ softThreshold < effective
            /\ effective < d - PosScale \div 10
            /\ effective < stretchLimit - PosScale
    IN last.op = "softReach" /\ SoftReachCase(Pulled)

\* C24: every solver invocation ends within its budget: solveIK_Advanced
\* enters its loop body at most 50 times, solveCCD and solveJacobian make at
\* most `iterations` passes over the joints of the tree, solveFABRIK and
\* solveAnalytical one, Joint.updateIK at most `iterations` sweeps over the
\* joint and its ancestors, each once; normalizeAngle in the updateFK that
\* follows makes no more rounds than the angle has turns.
C24_WithinBudget ==
    /\ lastSolve.phase \in {"loop", "extract", "returned"} /\ lastSolve.ran
         => /\ lastSolve.iter <= 50
            /\ Len(lastSolve.dists) <= 50
            /\ lastSolve.iter <= Len(lastSolve.dists)
            /\ lastSolve.phase = "loop" => lastSolve.iter < 50
    /\ last.op = "chainUpdateIK"
         => /\ last.b.passes <= (IF last.a.solver \in {"ccd", "jacobian"}
                                 THEN last.a.iterations ELSE 1)
            /\ Len(last.b.visits) = Cardinality(Reachable(last.pre))
            /\ \A j \in Reachable(last.pre) : Occurrences(last.b.visits, j) = 1
    /\ last.op = "updateIK"
         => /\ last.b.passes <= last.a.iterations
            /\ \A j \in Reachable(last.pre) :
                  Occurrences(last.b.visits, j) =
                     IF last.a.joint \in Closure(last.pre, {j}) THEN 1 ELSE 0
    /\ last.op = "updateFK"
         => last.b.rounds <= Abs(last.a.angle) \div TwoPI + 1

\* a call of solveIK_Advanced that used its whole budget of 50 iterations
C24_Witness ==
    /\ lastSolve.phase = "extract"
    /\ lastSolve.iter = 50
    /\ Len(lastSolve.dists) = 50

\* the tree with every joint at the angle commanded for it
Commanded(js) ==
    updateTransform([j \in DOMAIN js |-> [js[j] EXCEPT !.angle = js[j].targetAngle]], ROOT)

\* C25: solveAnalytical on two joints: beyond l1 + l2 the first joint is
\* commanded toward the target and the second to 0; within |l1 - l2| both
\* are commanded to 0; otherwise the commanded angles place the end
\* effector on the target (here: within 2 px of it).
C25_AnalyticalPlacesEffector ==
    last.op = "solveAnalytical"
    => LET order == getAllJoints(last.pre, ROOT)
           rootPos == getWorldPosition(last.pre, ROOT)
           l1 == last.pre[order[1]].length
           l2 == last.pre[order[2]].length
           d == VDistance(rootPos, target)
       IN IF d > l1 + l2
          THEN /\ joints[order[1]].targetAngle
                    = Atan2(target.y - rootPos.y, target.x - rootPos.x)
               /\ joints[order[2]].targetAngle = 0
          ELSE IF d < Abs(l1 - l2)
          THEN joints[order[1]].targetAngle = 0 /\ joints[order[2]].targetAngle = 0
          ELSE VDistance(getEndEffectorPosition(Commanded(joints), order[2]), target)
                  <= 2 * LenScale

\* C26: two calls of solveIK_Advanced with the same chain id, target,
\* rotation map and center return the same rotation map, whatever values
\* Math.random returns during them.
C26_SolveDeterministic ==
    (lastSolve.phase = "extract" /\ lastSolve.ran)
    => \A draws \in DrawInputs :
          solveIK_Advanced(lastSolve.chainId, lastSolve.goal, lastSolve.rots,
                           lastSolve.center, draws).rots
             = solveReturn(lastSolve).rots

\* C27: a solver call (JointChain.updateIK with any solver, Joint.updateIK)
\* changes neither angle nor targetAngle of a joint whose ikEnabled flag is
\* false.
C27_DisabledJointsUntouched ==
    last.op \in CallOps
    => \A j \in Reachable(last.pre) :
          ~last.pre[j].ikEnabled
          => /\ joints[j].angle = last.pre[j].angle
             /\ joints[j].targetAngle = last.pre[j].targetAngle

\* the number of parent links from joint j up to the root
RECURSIVE ParentLinks(_, _)
ParentLinks(js, j) == IF js[j].parent = NULL THEN 0 ELSE 1 + ParentLinks(js, js[j].parent)

\* C28: after any operation root.getDeepestJoint() is a joint without
\* children whose number of parent links to the root is maximal in the
\* tree, and addJoint() without argument attaches the new joint to it.
C28_DeepestIsTerminal ==
    LET Terminal(js, deepest) ==
            /\ js[deepest].children = <<>>
            /\ \A j \in Reachable(js) : ParentLinks(js, j) <= ParentLinks(js, deepest)
    IN /\ last.op # "new" => Terminal(joints, getDeepestJoint(joints, ROOT))
       /\ (last.op = "addJoint" /\ last.a = NULL)
            => /\ Terminal(last.pre, getDeepestJoint(last.pre, ROOT))
               /\ joints[Cardinality(DOMAIN joints)].parent
                     = getDeepestJoint(last.pre, ROOT)

\* the angle of the eased joint is within 0.001 rad of its targetAngle or
\* of a value equal to it modulo 2 pi
Settled ==
    LET off == (joints[SmoothJoint].angle - joints[SmoothJoint].targetAngle) % TwoPI
    IN off <= SmoothEpsilon \/ off >= TwoPI - SmoothEpsilon

\* C29: with the targetAngle held fixed, repeated updateFK calls eventually
\* bring the angle within 0.001 of it (modulo 2 pi) and keep it there,
\* with angleWrapping true and false, for negative targets and targets of
\* 2 pi and more.  updateFK is a function of the joint, so an angle that
\* comes back to a value it had before is on a cycle it never leaves: the
\* claim requires every such angle to be a settled one.
C29_SmoothingConverges ==
    (last.op = "updateFK" /\ joints[SmoothJoint].angle = last.b) => Settled

\* ------------------------------------------------------------------------
\* InputHandler: selection
\* ------------------------------------------------------------------------

\* InputHandler.clearSelection: the flags of the joints below the root
clearSelection(js) ==
    [j \in DOMAIN js |->
        IF j \in Reachable(js) THEN [js[j] EXCEPT !.selected = FALSE] ELSE js[j]]

\* InputHandler.pointInBox
pointInBox(point, box) ==
    /\ point.x >= Min(box.start.x, box.current.x)
    /\ point.x <= Max(box.start.x, box.current.x)
    /\ point.y >= Min(box.start.y, box.current.y)
    /\ point.y <= Max(box.start.y, box.current.y)

\* InputHandler.selectJointsInBox: selectedJoint is not assigned
selectJointsInBox(js, selectionBox) ==
    [j \in DOMAIN js |->
        IF j \in Reachable(js)
        THEN [js[j] EXCEPT !.selected = pointInBox(getWorldPosition(js, j), selectionBox)]
        ELSE js[j]]

\* InputHandler.selectAll: selectedJoint is not assigned
selectAll(js) ==
    [j \in DOMAIN js |->
        IF j \in Reachable(js) THEN [js[j] EXCEPT !.selected = TRUE] ELSE js[j]]

\* InputHandler.deleteSelectedJoints: the forEach over the joints listed
\* before the first removal, ended by the first exception
RECURSIVE deleteSelectedFrom(_, _, _)
deleteSelectedFrom(js, all, i) ==
    IF i > Len(all) THEN [js |-> js, thrown |-> "none"]
    ELSE IF js[all[i]].selected /\ all[i] # ROOT
         THEN LET removed == removeJoint(js, all[i])
              IN IF removed.thrown # "none" THEN removed
                 ELSE deleteSelectedFrom(removed.js, all, i + 1)
         ELSE deleteSelectedFrom(js, all, i + 1)
deleteSelectedJoints(js) == deleteSelectedFrom(js, getAllJoints(js, ROOT), 1)

MaxSelections == 3

\* selection boxes, start and current corner: around Root and Joint_1 of
\* the default chain, around Joint_2 and EndEffector dragged right to left,
\* around the origin, and over empty canvas
SelectionBoxes ==
    {[start |-> Vec(390 * LenScale, 290 * LenScale),
      current |-> Vec(470 * LenScale, 310 * LenScale)],
     [start |-> Vec(560 * LenScale, 310 * LenScale),
      current |-> Vec(500 * LenScale, 290 * LenScale)],
     [start |-> Vec(-10 * LenScale, -10 * LenScale),
      current |-> Vec(10 * LenScale, 10 * LenScale)],
     [start |-> Vec(100 * LenScale, 100 * LenScale),
      current |-> Vec(200 * LenScale, 200 * LenScale)]}

\* one selection operation of the InputHandler
Selection(op, a, js, sel, exception) ==
    /\ steps < MaxSelections
    /\ joints' = js
    /\ selectedJoint' = sel
    /\ thrown' = exception
    /\ last' = [op |-> op, a |-> a, b |-> selectedJoint, pre |-> joints]
    /\ steps' = steps + 1
    /\ UNCHANGED <<chainVars, frameLog, frames, skeletonVars>>

SelectJoint(joint) ==
    Selection("selectJoint", joint,
              [clearSelection(joints) EXCEPT ![joint].selected = TRUE], joint, "none")

ToggleJointSelection(joint) ==
    Selection("toggleJointSelection", joint,
              [joints EXCEPT ![joint].selected = ~joints[joint].selected],
              IF ~joints[joint].selected /\ selectedJoint = NULL THEN joint
              ELSE IF joints[joint].selected /\ selectedJoint = joint THEN NULL
              ELSE selectedJoint,
              "none")

AddToSelection(joint) ==
    Selection("addToSelection", joint, [joints EXCEPT ![joint].selected = TRUE],
              IF selectedJoint = NULL THEN joint ELSE selectedJoint, "none")

ClearSelection ==
    Selection("clearSelection", NULL, clearSelection(joints), NULL, "none")

SelectJointsInBox(selectionBox) ==
    Selection("selectJointsInBox", selectionBox,
              selectJointsInBox(joints, selectionBox), selectedJoint, "none")

SelectAll ==
    Selection("selectAll", NULL, selectAll(joints), selectedJoint, "none")

DeleteSelectedJoints ==
    Selection("deleteSelectedJoints", NULL, deleteSelectedJoints(joints).js,
              selectedJoint, deleteSelectedJoints(joints).thrown)

SelectionOps == {"selectJoint", "toggleJointSelection", "addToSelection",
                 "clearSelection", "selectJointsInBox", "selectAll",
                 "deleteSelectedJoints"}

\* selection operations on the joints of the chain, between frames
NextSelect ==
    \/ Animate
    \/ \E joint \in Reachable(joints) : SelectJoint(joint)
    \/ \E joint \in Reachable(joints) : ToggleJointSelection(joint)
    \/ \E joint \in Reachable(joints) : AddToSelection(joint)
    \/ ClearSelection
    \/ \E selectionBox \in SelectionBoxes : SelectJointsInBox(selectionBox)
    \/ SelectAll
    \/ DeleteSelectedJoints

SpecSelect == InitChain /\ [][NextSelect]_vars

\* C30: after any sequence of selection operations, a selectedJoint that is
\* not null is a joint still reachable from the chain root and its selected
\* flag is true.
C30_SelectedJointValid ==
    (last.op \in SelectionOps /\ selectedJoint # NULL)
        => /\ selectedJoint \in Reachable(joints)
           /\ joints[selectedJoint].selected

=========================================================================
